---- MODULE Spec2Model ----
(***************************************************************************)
(* A model of source_microsoft_excel_online: the Microsoft Graph client    *)
(* (stream_reader.py), its retrying request executor and the SharePoint    *)
(* location resolver.                                                      *)
(*                                                                         *)
(* Text is modelled as a sequence of string tokens: single characters      *)
(* where the code works on characters (strip, startswith, quote), longer   *)
(* literals where the code only concatenates.  Durations are integers in   *)
(* ticks, Tick ticks to the second.  Every variable is a function of the   *)
(* caller: each caller owns its client object and its call frames.         *)
(***************************************************************************)
EXTENDS Integers, Sequences, FiniteSets, TLC

VARIABLES
    config,     \* config[c]: the configuration mapping handed to the client
    client,     \* client[c]: the fields MicrosoftGraphExcelClient.__init__ sets
    top,        \* top[c]: the operation the caller invoked and its outcome
    rj,         \* rj[c]: the frame of _request_json
    res,        \* res[c]: the frames of the resolve_* methods
    net,        \* net[c]: what the caller has done to the outside world
    remote      \* the remote side: which answers it may give

vars == <<config, client, top, rj, res, net, remote>>

Callers == DOMAIN top

----------------------------------------------------------------------------
(* Bounds of the model *)

\* largest max_retries value a configuration is drawn with
MaxRetriesCfg == 2
\* random.random() is drawn from the grid {0, 1/RandDen, .., (RandDen-1)/RandDen}
RandDen == 2
\* the largest Retry-After value (a single digit) the remote sends, in seconds
RetryAfterMax == 7

(* Program constants *)

DefaultMaxRetries == 5
DefaultInitialBackoff == 1
DefaultMaxBackoff == 60
DefaultTimeout == 60
\* the raw error body is cut to this many characters
BodyLimit == 2000

\* ticks per second: fine enough for 0.25 * base * k/RandDen to be whole
Tick == 4 * RandDen

----------------------------------------------------------------------------
(* Python helpers *)

Min(a, b) == IF a <= b THEN a ELSE b
Max(a, b) == IF a >= b THEN a ELSE b

RECURSIVE Pow2(_)
Pow2(n) == IF n <= 0 THEN 1 ELSE 2 * Pow2(n - 1)

\* `x or d` on a number: 0 is falsy
OrDefault(x, d) == IF x = 0 THEN d ELSE x

Digits == {"0", "1", "2", "3", "4", "5", "6", "7", "8", "9"}
DigitVal(ch) ==
    CASE ch = "0" -> 0 [] ch = "1" -> 1 [] ch = "2" -> 2 [] ch = "3" -> 3
      [] ch = "4" -> 4 [] ch = "5" -> 5 [] ch = "6" -> 6 [] ch = "7" -> 7
      [] ch = "8" -> 8 [] ch = "9" -> 9

\* str(n) for a single digit
DigitStr(n) ==
    CASE n = 0 -> "0" [] n = 1 -> "1" [] n = 2 -> "2" [] n = 3 -> "3" [] n = 4 -> "4"
      [] n = 5 -> "5" [] n = 6 -> "6" [] n = 7 -> "7" [] n = 8 -> "8" [] n = 9 -> "9"

RECURSIVE DigitsVal(_)
DigitsVal(s) ==
    IF s = <<>> THEN 0 ELSE 10 * DigitsVal(SubSeq(s, 1, Len(s) - 1)) + DigitVal(s[Len(s)])

AllDigits(s) == Len(s) > 0 /\ \A i \in 1..Len(s) : s[i] \in Digits

\* float(text) for signed decimal integers; anything else raises ValueError
FloatParses(s) ==
    \/ AllDigits(s)
    \/ Len(s) > 1 /\ s[1] \in {"-", "+"} /\ AllDigits(Tail(s))

FloatOf(s) ==
    IF s[1] = "-" THEN 0 - DigitsVal(Tail(s))
    ELSE IF s[1] = "+" THEN DigitsVal(Tail(s))
    ELSE DigitsVal(s)

\* Optional values: None is the empty tuple, a present value v is <<v>>
None == <<>>
Some(v) == <<v>>
IsSome(o) == o # <<>>

\* truthiness of an optional string: present and not the empty string
Truthy(o) == o # <<>> /\ o[1] # <<>>

\* s holds sub as a contiguous run of tokens (`sub in s`)
Contains(s, sub) ==
    \E i \in 1..(Len(s) + 1) :
        /\ i + Len(sub) - 1 <= Len(s)
        /\ SubSeq(s, i, i + Len(sub) - 1) = sub

\* str(status_code)
StatusStr(n) ==
    CASE n = 200 -> "200" [] n = 204 -> "204" [] n = 400 -> "400" [] n = 401 -> "401"
      [] n = 403 -> "403" [] n = 404 -> "404" [] n = 429 -> "429" [] n = 500 -> "500"
      [] n = 502 -> "502" [] n = 503 -> "503" [] n = 504 -> "504"

\* sep.join(parts) for a sequence of strings
RECURSIVE Join(_, _)
Join(sep, parts) ==
    IF parts = <<>> THEN <<>>
    ELSE IF Len(parts) = 1 THEN parts[1]
    ELSE parts[1] \o sep \o Join(sep, Tail(parts))

----------------------------------------------------------------------------
(* Exceptions.  The client raises one class and tells its errors apart by  *)
(* their message; the transport raises requests.RequestException classes.  *)

GraphError(msg) == [type |-> "MicrosoftGraphExcelError", msg |-> msg]
TransportError(type, msg) == [type |-> type, msg |-> msg]

TransportErrors ==
    { TransportError("ConnectionError", <<"connection reset">>),
      TransportError("Timeout", <<"read timed out">>) }

IsRequestException(exc) == exc.type \in {"ConnectionError", "Timeout"}

\* the message forms of _request_json and _get_access_token
IsGraphApiError(exc) ==
    exc.type = "MicrosoftGraphExcelError" /\ Len(exc.msg) > 0 /\ exc.msg[1] = "Graph API error "
IsRequestFailedError(exc) ==
    /\ exc.type = "MicrosoftGraphExcelError"
    /\ Len(exc.msg) > 0
    /\ exc.msg[1] = "Graph request failed after retries for "
IsAuthenticationError(exc) ==
    /\ exc.type = "MicrosoftGraphExcelError"
    /\ Len(exc.msg) > 0
    /\ exc.msg[1] \in {"Failed to acquire access token via MSAL: ", "MSAL did not return a token payload"}

----------------------------------------------------------------------------
(* JSON values and HTTP responses, as the remote produces them *)

NoErr == [isdict |-> FALSE, code |-> <<>>, message |-> <<>>]
JErr(code, message) == [isdict |-> TRUE, code |-> code, message |-> message]

\* the "value" member: a list of drive entries, or something that is no list
NoList == [islist |-> FALSE, items |-> <<>>]
JList(items) == [islist |-> TRUE, items |-> items]
\* a drive entry: an object with name and id ("" for an absent or empty
\* member), or something that is no object
JDrive(name, id) == [isdict |-> TRUE, name |-> name, id |-> id]
NotADrive == [isdict |-> FALSE, name |-> <<>>, id |-> <<>>]

\* a worksheet cell: text, number or null
CStr(s) == [t |-> "str", s |-> s]
CInt(digits) == [t |-> "int", s |-> digits]
CNone == [t |-> "NoneType", s |-> <<>>]

\* the "values" member of a range: null (also what .get gives for an absent
\* member), a list of rows, or a value of another type
NoValues == [type |-> "NoneType", rows |-> <<>>]
JMatrix(rows) == [type |-> "list", rows |-> rows]
JScalar(type) == [type |-> type, rows |-> <<>>]

\* a body that is no JSON: resp.json() raises ValueError
NoJson ==
    [valid |-> FALSE, keys |-> {}, id |-> <<>>, error |-> NoErr, value |-> NoList,
     values |-> NoValues]
\* a JSON object; keys are the members present
JObj(keys, id, error, value) ==
    [valid |-> TRUE, keys |-> keys, id |-> id, error |-> error, value |-> value,
     values |-> NoValues]
JId(id) == JObj({"id"}, id, NoErr, NoList)
JEmpty == JObj({}, <<>>, NoErr, NoList)
JError(code, message) == JObj({"error"}, <<>>, JErr(code, message), NoList)
JDrives(items) == JObj({"value"}, <<>>, NoErr, JList(items))

JValues(values) == [JObj({"values"}, <<>>, NoErr, NoList) EXCEPT !.values = values]

\* payload.get("values"): None when the member is absent
GetValues(payload) == IF "values" \in payload.keys THEN payload.values ELSE NoValues

\* payload.get("id"): None when the member is absent
GetId(payload) == IF "id" \in payload.keys THEN Some(payload.id) ELSE None

NoHeaders ==
    [retry_after |-> None, content_type |-> None, request_id |-> None,
     x_ms_request_id |-> None, client_request_id |-> None]

Response(status, headers, text, json) ==
    [status_code |-> status, headers |-> headers, text |-> text, json |-> json]

JsonType == Some(<<"application/json">>)

\* error bodies the remote answers with: content type, text and parsed form
ErrorBodies ==
    { [ct |-> JsonType,
       text |-> <<"{", "\"error\"", ":", "{", "\"code\"", ":", "\"X\"", ",",
                  "\"message\"", ":", "\"bad\"", "}", "}">>,
       json |-> JError(<<"X">>, <<"bad">>)],
      [ct |-> JsonType,
       text |-> <<"{", "\"error\"", ":", "{", "\"message\"", ":", "\"bad\"", "}", "}">>,
       json |-> JError(<<>>, <<"bad">>)],
      [ct |-> JsonType,
       text |-> <<"{", "\"error\"", ":", "{", "\"code\"", ":", "\"itemNotFound\"", ",",
                  "\"message\"", ":", "\"gone\"", "}", "}">>,
       json |-> JError(<<"itemNotFound">>, <<"gone">>)],
      \* the same JSON served without a JSON content type
      [ct |-> Some(<<"text/plain">>),
       text |-> <<"{", "\"error\"", ":", "{", "\"code\"", ":", "\"itemNotFound\"", ",",
                  "\"message\"", ":", "\"gone\"", "}", "}">>,
       json |-> JError(<<"itemNotFound">>, <<"gone">>)],
      [ct |-> Some(<<"text/html">>),
       text |-> <<" ", "<html>", "oops", "</html>", " ">>,
       json |-> NoJson] }

----------------------------------------------------------------------------
(* MicrosoftGraphExcelClient.__init__: the networking fields *)

ClientInit(cfg) ==
    [ _timeout_seconds |-> OrDefault(cfg.request_timeout_seconds, DefaultTimeout),
      _max_retries |-> OrDefault(cfg.max_retries, DefaultMaxRetries),
      _initial_backoff_seconds |-> OrDefault(cfg.initial_backoff_seconds, DefaultInitialBackoff),
      _max_backoff_seconds |-> OrDefault(cfg.max_backoff_seconds, DefaultMaxBackoff) ]

(* _get_access_token: what acquire_token_for_client hands back *)
TokenResults == {"access_token", "error", "not_a_dict"}

GetAccessTokenError(token_result) ==
    IF token_result = "not_a_dict"
    THEN GraphError(<<"MSAL did not return a token payload">>)
    ELSE GraphError(<<"Failed to acquire access token via MSAL: ", "error=", "invalid_client">>)

----------------------------------------------------------------------------
(* _extract_graph_error_message *)

Whitespace == {" ", "\t", "\n", "\r"}

\* str.lstrip(chars), str.rstrip(chars), str.strip(chars)
RECURSIVE LStrip(_, _)
LStrip(s, chars) == IF s # <<>> /\ s[1] \in chars THEN LStrip(Tail(s), chars) ELSE s
RECURSIVE RStrip(_, _)
RStrip(s, chars) ==
    IF s # <<>> /\ s[Len(s)] \in chars THEN RStrip(SubSeq(s, 1, Len(s) - 1), chars) ELSE s
StripChars(s, chars) == RStrip(LStrip(s, chars), chars)
\* str.strip()
Strip(s) == StripChars(s, Whitespace)

\* a or b on optional strings
OrElse(a, b) == IF Truthy(a) THEN a ELSE b

IdSuffix(request_id, client_request_id) ==
    (IF Truthy(request_id) THEN << <<"request_id=">> \o request_id[1] >> ELSE <<>>)
    \o (IF Truthy(client_request_id)
        THEN << <<"client_request_id=">> \o client_request_id[1] >> ELSE <<>>)

\* body[:2000] + ellipsis; a body longer than BodyLimit is modelled one
\* character per token, so Len counts its characters
Truncate(body) ==
    IF Len(body) > BodyLimit THEN SubSeq(body, 1, BodyLimit) \o <<"...">> ELSE body

\* mutant: the structured form is read whatever the content type
ExtractGraphErrorMessageAnyContentType(resp) ==
    LET request_id == OrElse(resp.headers.request_id, resp.headers.x_ms_request_id)
        client_request_id == resp.headers.client_request_id
        payload == resp.json
        err == payload.error
        structured == payload.valid /\ "error" \in payload.keys /\ err.isdict
        parts == SelectSeq(<<err.code, err.message>>, LAMBDA p : p # <<>>)
        suffix == IdSuffix(request_id, client_request_id)
        body == Truncate(Strip(resp.text))
    IN  IF structured /\ parts # <<>>
        THEN Join(<<" | ">>, << Join(<<" - ">>, parts) >> \o suffix)
        ELSE IF suffix # <<>>
        THEN body \o <<" | ">> \o Join(<<" ">>, suffix)
        ELSE body

ExtractGraphErrorMessage(resp) ==
    LET request_id == OrElse(resp.headers.request_id, resp.headers.x_ms_request_id)
        client_request_id == resp.headers.client_request_id
        content_type ==
            IF IsSome(resp.headers.content_type) THEN resp.headers.content_type[1] ELSE <<>>
        payload == resp.json
        err == payload.error
        structured ==
            /\ Contains(content_type, <<"application/json">>)
            /\ payload.valid
            /\ "error" \in payload.keys
            /\ err.isdict
        parts == SelectSeq(<<err.code, err.message>>, LAMBDA p : p # <<>>)
        suffix == IdSuffix(request_id, client_request_id)
        body == Truncate(Strip(resp.text))
    IN  IF structured /\ parts # <<>>
        THEN Join(<<" | ">>, << Join(<<" - ">>, parts) >> \o suffix)
        ELSE IF suffix # <<>>
        THEN body \o <<" | ">> \o Join(<<" ">>, suffix)
        ELSE body

----------------------------------------------------------------------------
(* _retry_sleep_seconds, in ticks; k / RandDen is what random.random() gave *)

\* mutant: 404 is taken for a transient status too
RetryableStatusesWith404 == {404, 429, 500, 502, 503, 504}

RetryableStatuses == {429, 500, 502, 503, 504}

\* mutant: the exponential backoff is not capped by max_backoff
BackoffUncapped(cl, attempt) == cl._initial_backoff_seconds * Pow2(attempt)

\* min(max_backoff, initial_backoff * 2 ** attempt), in seconds
Backoff(cl, attempt) ==
    Min(cl._max_backoff_seconds, cl._initial_backoff_seconds * Pow2(attempt))

\* mutant: the Retry-After value is capped by max_backoff
RetrySleepSecondsCapped(cl, resp, attempt, k) ==
    LET retry_after == resp.headers.retry_after
        base == Backoff(cl, attempt)
    IN  IF Truthy(retry_after) /\ FloatParses(retry_after[1])
        THEN Tick * Min(cl._max_backoff_seconds, Max(0, FloatOf(retry_after[1])))
        ELSE Tick * base + k * base

\* mutant: the jitter is taken off the base instead of added to it
RetrySleepSecondsJitterDown(cl, resp, attempt, k) ==
    LET retry_after == resp.headers.retry_after
        base == Backoff(cl, attempt)
    IN  IF Truthy(retry_after) /\ FloatParses(retry_after[1])
        THEN Tick * Max(0, FloatOf(retry_after[1]))
        ELSE Tick * base - k * base

\* mutant: the Retry-After value is added to the backoff instead of replacing it
RetrySleepSecondsAddsBackoff(cl, resp, attempt, k) ==
    LET retry_after == resp.headers.retry_after
        base == Backoff(cl, attempt)
    IN  IF Truthy(retry_after) /\ FloatParses(retry_after[1])
        THEN Tick * Max(0, FloatOf(retry_after[1])) + Tick * base + k * base
        ELSE Tick * base + k * base

RetrySleepSeconds(cl, resp, attempt, k) ==
    LET retry_after == resp.headers.retry_after
        base == Backoff(cl, attempt)
        jitter == k * base              \* (k / RandDen) * 0.25 * base seconds
    IN  IF Truthy(retry_after) /\ FloatParses(retry_after[1])
        THEN Tick * Max(0, FloatOf(retry_after[1]))
        ELSE Tick * base + jitter

----------------------------------------------------------------------------
(* Call frames *)

RjIdle ==
    [pc |-> "idle", by |-> "", url |-> <<>>, attempt |-> 0, last_error |-> None,
     resp |-> None, token |-> None, sleep_s |-> 0, ret |-> None, exc |-> None]

\* what one _request_json call has done so far
CallStart ==
    [token_calls |-> 0,    \* acquire_token_for_client invocations
     tokens |-> <<>>,      \* the tokens obtained, in order
     sent |-> <<>>,        \* the token each session.request call carried, in order
     sleeps |-> <<>>,      \* the attempts that were followed by a sleep
     slept |-> 0,          \* ticks slept
     last |-> "none"]      \* how the latest attempt ended: "response", or the
                           \* type of the exception the transport raised

NetStart ==
    [requests |-> <<>>,    \* the URL of each _request_json call, in order
     call |-> CallStart]   \* the _request_json call in progress, or the last one

TopStart(op) == [op |-> op, pc |-> "idle", ret |-> None, location |-> None, exc |-> None]

\* the frames of resolve_sharepoint_site_id, resolve_document_library_drive_id
\* (with resolve_default_drive_id), resolve_drive_item_id_by_path and
\* resolve_excel_location
SiteIdle ==
    [pc |-> "idle", hostname |-> <<>>, site_path |-> <<>>, normalized_hostname |-> <<>>,
     candidates |-> <<>>, i |-> 0, last_error |-> None, ret |-> None, exc |-> None]
DriveIdle == [pc |-> "idle", site_id |-> <<>>, ret |-> None, exc |-> None]
ItemIdle ==
    [pc |-> "idle", drive_id |-> <<>>, item_path |-> <<>>, base |-> <<>>, i |-> 0,
     ret |-> None, exc |-> None]
LocIdle ==
    [pc |-> "idle", worksheet_name |-> <<>>, range_address |-> None, directory_path |-> <<>>,
     file_name |-> <<>>, drive_id |-> <<>>, item_path |-> <<>>]
ResIdle == [site |-> SiteIdle, drive |-> DriveIdle, item |-> ItemIdle, loc |-> LocIdle]

GraphBaseUrl == <<"https://graph.microsoft.com/v1.0">>

----------------------------------------------------------------------------
(* The remote side *)

RetryAfterValues ==
    { None, Some(<<>>), Some(<<"0">>), Some(<<DigitStr(RetryAfterMax)>>),
      Some(<<"-", "2">>), Some(<<"s", "o", "o", "n">>) }

ErrorResponse(status, retry_after, b) ==
    Response(status, [NoHeaders EXCEPT !.retry_after = retry_after, !.content_type = b.ct],
             b.text, b.json)

\* the endpoint a URL addresses, read off its literal parts
UrlKind(url) ==
    IF Len(url) < 2 THEN "other"
    ELSE IF url[2] = "/sites/" /\ url[Len(url)] = "/drives" THEN "drives"
    ELSE IF url[2] = "/sites/" /\ url[Len(url)] = "/drive" THEN "drive"
    ELSE IF url[2] = "/sites/" THEN "site"
    ELSE IF url[2] = "/drives/" /\ Contains(url, <<"/workbook/worksheets/">>) THEN "values"
    ELSE IF url[2] = "/drives/" THEN "item"
    ELSE "other"

\* the answers the remote may give to one HTTP attempt on url
RemoteResponses(url) ==
    { Response(200, [NoHeaders EXCEPT !.content_type = JsonType], <<"{}">>, j) :
        j \in remote.payloads[UrlKind(url)] }
    \cup { ErrorResponse(st, None, b) : st \in remote.errors, b \in ErrorBodies }
    \cup { ErrorResponse(st, ra, b) :
            st \in remote.retryable, ra \in remote.retry_after, b \in remote.retry_bodies }

----------------------------------------------------------------------------
(* _request_json *)

\* a caller enters _request_json(method, url)
RequestJsonCall(c, by, url) ==
    /\ rj' = [rj EXCEPT ![c] = [RjIdle EXCEPT !.pc = "headers", !.by = by, !.url = url]]
    /\ net' = [net EXCEPT ![c].requests = Append(@, url), ![c].call = CallStart]

RequestFailedAfterRetries(url, last_error) ==
    GraphError(<<"Graph request failed after retries for ">> \o url \o <<": ">>
               \o (IF IsSome(last_error) THEN last_error[1].msg ELSE <<"None">>))

\* mutant: a status error is reported in the retries-exhausted form
GraphApiErrorAsRequestFailed(status, url, message) ==
    GraphError(<<"Graph request failed after retries for ">> \o url \o <<": ">> \o message)

GraphApiError(status, url, message) ==
    GraphError(<<"Graph API error ", StatusStr(status), " for ">> \o url \o <<": ">> \o message)

\* mutant: the token of the first attempt is kept and sent again by the retries
HeadersCachedToken(c) ==
    /\ rj[c].pc = "headers"
    /\ IF net[c].call.tokens # <<>>
       THEN /\ rj' = [rj EXCEPT ![c].pc = "request", ![c].token = Some(net[c].call.tokens[1])]
            /\ net' = net
       ELSE LET token == net[c].call.token_calls + 1
            IN  /\ rj' = [rj EXCEPT ![c].pc = "request", ![c].token = Some(token)]
                /\ net' = [net EXCEPT ![c].call.token_calls = @ + 1,
                                      ![c].call.tokens = Append(@, token)]
    /\ UNCHANGED <<config, client, top, res, remote>>

\* mutant: a failed token acquisition is retried like a transport failure
HeadersRetriesTokenFailure(c) ==
    /\ rj[c].pc = "headers"
    /\ \E token_result \in TokenResults :
        IF token_result = "access_token"
        THEN LET token == net[c].call.token_calls + 1
             IN  /\ rj' = [rj EXCEPT ![c].pc = "request", ![c].token = Some(token)]
                 /\ net' = [net EXCEPT ![c].call.token_calls = @ + 1,
                                       ![c].call.tokens = Append(@, token)]
        ELSE /\ IF rj[c].attempt >= client[c]._max_retries
                THEN rj' = [rj EXCEPT ![c].pc = "raised",
                                      ![c].exc = Some(GetAccessTokenError(token_result))]
                ELSE rj' = [rj EXCEPT ![c].pc = "sleep",
                                      ![c].last_error = Some(GetAccessTokenError(token_result)),
                                      ![c].sleep_s = Tick * Backoff(client[c], rj[c].attempt)]
             /\ net' = [net EXCEPT ![c].call.token_calls = @ + 1]
    /\ UNCHANGED <<config, client, top, res, remote>>

\* mutant: a token another caller holds is used instead of acquiring one
HeadersSharedToken(c) ==
    /\ rj[c].pc = "headers"
    /\ IF \E d \in Callers \ {c} : IsSome(rj[d].token)
       THEN /\ rj' = [rj EXCEPT ![c].pc = "request",
                                ![c].token = rj[CHOOSE d \in Callers \ {c} : IsSome(rj[d].token)].token]
            /\ net' = net
       ELSE \E token_result \in TokenResults :
            IF token_result = "access_token"
            THEN LET token == net[c].call.token_calls + 1
                 IN  /\ rj' = [rj EXCEPT ![c].pc = "request", ![c].token = Some(token)]
                     /\ net' = [net EXCEPT ![c].call.token_calls = @ + 1,
                                           ![c].call.tokens = Append(@, token)]
            ELSE /\ rj' = [rj EXCEPT ![c].pc = "raised",
                                     ![c].exc = Some(GetAccessTokenError(token_result))]
                 /\ net' = [net EXCEPT ![c].call.token_calls = @ + 1]
    /\ UNCHANGED <<config, client, top, res, remote>>

\* headers=self._headers(): a token is acquired for this attempt, or the
\* failure leaves _request_json at once
Headers(c) ==
    /\ rj[c].pc = "headers"
    /\ \E token_result \in TokenResults :
        IF token_result = "access_token"
        THEN LET token == net[c].call.token_calls + 1
             IN  /\ rj' = [rj EXCEPT ![c].pc = "request", ![c].token = Some(token)]
                 /\ net' = [net EXCEPT ![c].call.token_calls = @ + 1,
                                       ![c].call.tokens = Append(@, token)]
        ELSE /\ rj' = [rj EXCEPT ![c].pc = "raised",
                                 ![c].exc = Some(GetAccessTokenError(token_result))]
             /\ net' = [net EXCEPT ![c].call.token_calls = @ + 1]
    /\ UNCHANGED <<config, client, top, res, remote>>

\* self._session.request raises requests.RequestException
RequestRaises(c) ==
    /\ rj[c].pc = "request"
    /\ remote.transport
    /\ \E exc \in TransportErrors :
        LET f == rj[c]
            cl == client[c]
        IN  /\ net' = [net EXCEPT ![c].call.sent = Append(@, f.token[1]),
                                  ![c].call.last = exc.type]
            /\ IF f.attempt >= cl._max_retries
               THEN rj' = [rj EXCEPT ![c].pc = "raised",
                                     ![c].last_error = Some(exc),
                                     ![c].exc = Some(RequestFailedAfterRetries(f.url, Some(exc)))]
               ELSE rj' = [rj EXCEPT ![c].pc = "sleep",
                                     ![c].last_error = Some(exc),
                                     ![c].sleep_s = Tick * Backoff(cl, f.attempt)]
    /\ UNCHANGED <<config, client, top, res, remote>>

\* self._session.request returns a response
RequestResponds(c) ==
    /\ rj[c].pc = "request"
    /\ \E resp \in RemoteResponses(rj[c].url), k \in 0..(RandDen - 1) :
        LET f == rj[c]
            cl == client[c]
        IN  /\ net' = [net EXCEPT ![c].call.sent = Append(@, f.token[1]),
                                  ![c].call.last = "response"]
            /\ IF resp.status_code < 400
               THEN IF resp.json.valid
                    THEN rj' = [rj EXCEPT ![c].pc = "returned", ![c].resp = Some(resp),
                                          ![c].ret = Some(resp.json)]
                    ELSE rj' = [rj EXCEPT ![c].pc = "raised", ![c].resp = Some(resp),
                                          ![c].exc = Some([type |-> "JSONDecodeError",
                                                           msg |-> <<"Expecting value">>])]
               ELSE IF resp.status_code \in RetryableStatuses /\ f.attempt < cl._max_retries
               THEN rj' = [rj EXCEPT ![c].pc = "sleep", ![c].resp = Some(resp),
                                     ![c].sleep_s = RetrySleepSeconds(cl, resp, f.attempt, k)]
               ELSE rj' = [rj EXCEPT ![c].pc = "raised", ![c].resp = Some(resp),
                                     ![c].exc = Some(GraphApiError(resp.status_code, f.url,
                                                         ExtractGraphErrorMessage(resp)))]
    /\ UNCHANGED <<config, client, top, res, remote>>

\* time.sleep(sleep_s); continue: the next iteration of the for loop, or past
\* its end to the final raise.  The locals the next iteration overwrites
\* before reading (resp, sleep_s, the headers) are cleared here.
Sleep(c) ==
    /\ rj[c].pc = "sleep"
    /\ LET f == rj[c]
       IN  /\ net' = [net EXCEPT ![c].call.slept = @ + f.sleep_s,
                                 ![c].call.sleeps = Append(@, f.attempt)]
           /\ IF f.attempt + 1 <= client[c]._max_retries
              THEN rj' = [rj EXCEPT ![c].pc = "headers", ![c].attempt = @ + 1,
                                    ![c].token = None, ![c].resp = None, ![c].sleep_s = 0]
              ELSE rj' = [rj EXCEPT ![c].pc = "raised", ![c].attempt = @ + 1,
                                    ![c].exc = Some(RequestFailedAfterRetries(f.url, f.last_error))]
    /\ UNCHANGED <<config, client, top, res, remote>>

----------------------------------------------------------------------------
(* A caller that invokes _request_json itself *)

TestUrl == GraphBaseUrl \o <<"/test">>

CallRequestJson(c) ==
    /\ top[c].op = "_request_json"
    /\ top[c].pc = "idle"
    /\ top' = [top EXCEPT ![c].pc = "running"]
    /\ RequestJsonCall(c, "top", TestUrl)
    /\ UNCHANGED <<config, client, res, remote>>

RequestJsonDone(c) ==
    /\ top[c].op = "_request_json"
    /\ top[c].pc = "running"
    /\ rj[c].by = "top"
    /\ rj[c].pc \in {"returned", "raised"}
    /\ top' = [top EXCEPT ![c].pc = rj[c].pc, ![c].ret = rj[c].ret, ![c].exc = rj[c].exc]
    /\ rj' = [rj EXCEPT ![c] = RjIdle]
    /\ UNCHANGED <<config, client, res, net, remote>>

----------------------------------------------------------------------------
(* Configurations *)

\* the networking keys of a configuration; 0 stands for an absent key too,
\* since `config.get(key) or default` reads both alike
NetConfigs ==
    { cfg \in [ request_timeout_seconds : {0},
                max_retries : 0..MaxRetriesCfg,
                initial_backoff_seconds : {0, 2},
                max_backoff_seconds : {0, 3},
                drive_id : {None},
                workbook_item_id : {None},
                worksheet_name : {<<"Sheet1">>},
                range_address : {None},
                sharepoint_hostname : {None},
                sharepoint_site_path : {None},
                sharepoint_directory_path : {None},
                excel_file_name : {None} ] :
        cfg.max_retries = 0 => cfg.initial_backoff_seconds = 2 /\ cfg.max_backoff_seconds = 3 }

\* a remote that may answer anything
AnyRemote ==
    [ transport |-> TRUE,
      payloads |-> [k \in {"site", "drives", "drive", "item", "values", "other"} |->
                      {JId(<<"x">>)}],
      errors |-> {400, 401, 403, 404},
      retryable |-> RetryableStatuses,
      retry_after |-> RetryAfterValues,
      retry_bodies |-> {b \in ErrorBodies : b.ct # JsonType} ]

InitRequest ==
    /\ config \in [{1} -> NetConfigs]
    /\ client = [c \in {1} |-> ClientInit(config[c])]
    /\ top = [c \in {1} |-> TopStart("_request_json")]
    /\ rj = [c \in {1} |-> RjIdle]
    /\ res = [c \in {1} |-> ResIdle]
    /\ net = [c \in {1} |-> NetStart]
    /\ remote = AnyRemote

NextRequest ==
    \/ \E c \in Callers : CallRequestJson(c)
    \/ \E c \in Callers : Headers(c)
    \/ \E c \in Callers : RequestRaises(c)
    \/ \E c \in Callers : RequestResponds(c)
    \/ \E c \in Callers : Sleep(c)
    \/ \E c \in Callers : RequestJsonDone(c)

SpecRequest == InitRequest /\ [][NextRequest]_vars

----------------------------------------------------------------------------
(* Claims about _request_json, checked under SpecRequest *)

\* C2 (as stated): a call whose every attempt was answered with a status in
\* {429, 500, 502, 503, 504} fails with the retries-exhausted error
\* (RequestFailedError), not with the Graph API error of a status.
C2_RetryableExhaustedIsRequestFailed ==
    \A c \in Callers :
        ( /\ rj[c].pc = "raised"
          /\ rj[c].last_error = None
          /\ IsSome(rj[c].resp)
          /\ rj[c].resp[1].status_code \in {429, 500, 502, 503, 504} )
        => IsRequestFailedError(rj[c].exc[1]) /\ ~IsGraphApiError(rj[c].exc[1])

\* C2 (amended): such a call fails on its last allowed attempt with the Graph
\* API error naming that attempt's status and error text; the retries-exhausted
\* error is raised only when the last attempt failed in the transport.
C2_RetryableExhaustedIsGraphApiError ==
    \A c \in Callers :
        /\ ( /\ rj[c].pc = "raised"
             /\ rj[c].last_error = None
             /\ IsSome(rj[c].resp)
             /\ rj[c].resp[1].status_code \in {429, 500, 502, 503, 504} )
           => /\ rj[c].attempt = client[c]._max_retries
              /\ Len(net[c].call.sent) = client[c]._max_retries + 1
              /\ IsGraphApiError(rj[c].exc[1])
              /\ ~IsRequestFailedError(rj[c].exc[1])
              /\ rj[c].exc[1].msg[2] = StatusStr(rj[c].resp[1].status_code)
        /\ ( rj[c].pc = "raised" /\ IsRequestFailedError(rj[c].exc[1]) )
           => net[c].call.last \in {"ConnectionError", "Timeout"}

C2_Witness ==
    \E c \in Callers :
        /\ rj[c].pc = "raised"
        /\ rj[c].last_error = None
        /\ IsSome(rj[c].resp)
        /\ rj[c].resp[1].status_code = 503
        /\ rj[c].attempt = 2
        /\ IsGraphApiError(rj[c].exc[1])

\* C3: one call makes at most N + 1 HTTP attempts, N being the configured
\* max_retries, N = 0 included.
C3_AtMostConfiguredAttempts ==
    \A c \in Callers : Len(net[c].call.sent) <= config[c].max_retries + 1

\* C4: a response with status >= 400 outside {429, 500, 502, 503, 504} ends the
\* call at that attempt with the Graph API error carrying the status and the
\* extracted error text, with no sleep after it; a response with status < 400
\* ends the call by returning its parsed body.
C4_NonRetryableEndsCall ==
    \A c \in Callers :
        IsSome(rj[c].resp) =>
            LET resp == rj[c].resp[1]
                st == resp.status_code
            IN  /\ st < 400 => rj[c].pc = "returned" /\ rj[c].ret = Some(resp.json)
                /\ (st >= 400 /\ st \notin {429, 500, 502, 503, 504}) =>
                      /\ rj[c].pc = "raised"
                      /\ rj[c].exc[1].type = "MicrosoftGraphExcelError"
                      /\ rj[c].exc[1].msg =
                            <<"Graph API error ", StatusStr(st), " for ">> \o rj[c].url
                            \o <<": ">> \o ExtractGraphErrorMessage(resp)
                      /\ (resp.json.error.message = <<"bad">>
                            => Contains(rj[c].exc[1].msg, <<"bad">>))
                      /\ Len(net[c].call.sent) = rj[c].attempt + 1
                      /\ Len(net[c].call.sleeps) = rj[c].attempt
                      /\ rj[c].sleep_s = 0

C4_Witness ==
    \E c \in Callers :
        /\ rj[c].pc = "raised"
        /\ IsSome(rj[c].resp)
        /\ rj[c].resp[1].status_code = 400
        /\ rj[c].attempt = 1
        /\ Contains(rj[c].exc[1].msg, <<"Graph API error ", "400">>)
        /\ Contains(rj[c].exc[1].msg, <<"bad">>)

\* C5: a transport failure on attempt a with attempts left is followed by a
\* sleep of exactly min(max_backoff, initial_backoff * 2^a), without jitter,
\* and then by attempt a + 1; a transport failure on the last allowed attempt
\* ends the call with the retries-exhausted error carrying that failure.
C5_TransportBackoffState ==
    \A c \in Callers :
        LET f == rj[c]
            cl == client[c]
            failed == net[c].call.last \in {"ConnectionError", "Timeout"}
        IN  /\ (f.pc = "sleep" /\ failed) =>
                  /\ f.attempt < cl._max_retries
                  /\ f.sleep_s =
                        Tick * Min(cl._max_backoff_seconds,
                                   cl._initial_backoff_seconds * Pow2(f.attempt))
            /\ (f.pc = "raised" /\ failed /\ Len(net[c].call.sent) = f.attempt + 1) =>
                  /\ f.attempt = cl._max_retries
                  /\ IsRequestFailedError(f.exc[1])
                  /\ \E e \in TransportErrors :
                        /\ e.type = net[c].call.last
                        /\ f.exc[1].msg =
                              <<"Graph request failed after retries for ">> \o f.url
                              \o <<": ">> \o e.msg

C5_SleepThenRetry ==
    \A c \in Callers :
        (rj[c].pc = "sleep" /\ rj'[c] # rj[c]) =>
            /\ rj'[c].pc = "headers"
            /\ rj'[c].attempt = rj[c].attempt + 1
            /\ net'[c].call.slept = net[c].call.slept + rj[c].sleep_s
            /\ net'[c].call.sent = net[c].call.sent

C5_TransportBackoff == []C5_TransportBackoffState /\ [][C5_SleepThenRetry]_vars

C5_Witness ==
    \E c \in Callers :
        /\ rj[c].pc = "raised"
        /\ net[c].call.last = "Timeout"
        /\ rj[c].attempt = 2
        /\ Len(net[c].call.sleeps) = 2
        /\ client[c]._initial_backoff_seconds * Pow2(1) > client[c]._max_backoff_seconds
        /\ IsRequestFailedError(rj[c].exc[1])

\* C6: after a retryable response whose Retry-After header is a non-negative
\* number v the sleep is exactly v seconds, whatever the attempt number and the
\* backoff settings (no cap by max_backoff, no jitter).
C6_RetryAfterExact ==
    \A c \in Callers :
        (rj[c].pc = "sleep" /\ IsSome(rj[c].resp)) =>
            LET retry_after == rj[c].resp[1].headers.retry_after
            IN  /\ retry_after = Some(<<"0">>) => rj[c].sleep_s = 0
                /\ \A v \in 1..9 :
                      retry_after = Some(<<DigitStr(v)>>) => rj[c].sleep_s = v * Tick

C6_Witness ==
    \E c \in Callers :
        /\ rj[c].pc = "sleep"
        /\ IsSome(rj[c].resp)
        /\ rj[c].resp[1].status_code = 429
        /\ rj[c].resp[1].headers.retry_after = Some(<<DigitStr(RetryAfterMax)>>)
        /\ rj[c].attempt = 1
        /\ RetryAfterMax > client[c]._max_backoff_seconds
        /\ rj[c].sleep_s = RetryAfterMax * Tick

\* C7 (as stated): after a retryable response on attempt a whose Retry-After
\* header is absent, unparseable or a negative number, the sleep is
\* base + jitter with base = min(max_backoff, initial_backoff * 2^a) and
\* 0 <= jitter <= 0.25 * base.
C7_BackoffUnlessNonNegative ==
    \A c \in Callers :
        (rj[c].pc = "sleep" /\ IsSome(rj[c].resp)) =>
            LET retry_after == rj[c].resp[1].headers.retry_after
                base == Tick * Min(client[c]._max_backoff_seconds,
                                   client[c]._initial_backoff_seconds * Pow2(rj[c].attempt))
            IN  retry_after \in {None, Some(<<>>), Some(<<"s", "o", "o", "n">>),
                                 Some(<<"-", "2">>)}
                => /\ base <= rj[c].sleep_s
                   /\ 4 * (rj[c].sleep_s - base) <= base

\* C7 (amended): the sleep is base + jitter when the header is absent, empty
\* or unparseable; a header that parses to a negative number gives a sleep of
\* 0, below base.
C7_BackoffUnlessNumber ==
    \A c \in Callers :
        (rj[c].pc = "sleep" /\ IsSome(rj[c].resp)) =>
            LET retry_after == rj[c].resp[1].headers.retry_after
                base == Tick * Min(client[c]._max_backoff_seconds,
                                   client[c]._initial_backoff_seconds * Pow2(rj[c].attempt))
            IN  /\ retry_after \in {None, Some(<<>>), Some(<<"s", "o", "o", "n">>)}
                   => /\ base <= rj[c].sleep_s
                      /\ 4 * (rj[c].sleep_s - base) <= base
                /\ retry_after = Some(<<"-", "2">>) => rj[c].sleep_s = 0 /\ 0 < base

C7_Witness ==
    \E c \in Callers :
        /\ rj[c].pc = "sleep"
        /\ IsSome(rj[c].resp)
        /\ rj[c].resp[1].headers.retry_after = Some(<<"s", "o", "o", "n">>)
        /\ rj[c].attempt = 1
        /\ rj[c].sleep_s > Tick * client[c]._max_backoff_seconds

\* C8 (as stated): the time slept in one call never exceeds
\* (max_retries + 1) * max_backoff.
C8_SleepWithinBackoffBound ==
    \A c \in Callers :
        net[c].call.slept
            <= (client[c]._max_retries + 1) * client[c]._max_backoff_seconds * Tick

\* C8 (amended): a call sleeps at most max_retries times, and the time slept
\* never exceeds (number of sleeps) * max(1.25 * max_backoff, R), R being the
\* largest Retry-After value the remote sent: Retry-After is honoured uncapped
\* and the jitter goes on top of max_backoff.
C8_SleepWithinRetryAfterBound ==
    \A c \in Callers :
        /\ Len(net[c].call.sleeps) <= client[c]._max_retries
        /\ 4 * net[c].call.slept
              <= Len(net[c].call.sleeps) * Tick
                    * Max(5 * client[c]._max_backoff_seconds, 4 * RetryAfterMax)

C8_Witness ==
    \E c \in Callers :
        /\ rj[c].pc = "raised"
        /\ Len(net[c].call.sleeps) = client[c]._max_retries
        /\ net[c].call.slept
              > (client[c]._max_retries + 1) * client[c]._max_backoff_seconds * Tick
        /\ 4 * net[c].call.slept
              = Len(net[c].call.sleeps) * Tick
                    * Max(5 * client[c]._max_backoff_seconds, 4 * RetryAfterMax)

\* C9: every HTTP attempt of a call carries the token acquired for it: the
\* tokens obtained and the tokens sent are the same sequence, one token per
\* attempt (one more while the attempt in preparation is not yet sent), and no
\* token is carried by two attempts.
C9_TokenPerAttempt ==
    \A c \in Callers :
        LET tokens == net[c].call.tokens
            sent == net[c].call.sent
        IN  /\ Len(tokens) = Len(sent) + (IF rj[c].pc = "request" THEN 1 ELSE 0)
            /\ \A i \in 1..Len(sent) : sent[i] = tokens[i]
            /\ \A i, j \in 1..Len(sent) : i # j => sent[i] # sent[j]
            /\ rj[c].pc \in {"request", "sleep", "returned"} => Len(tokens) = rj[c].attempt + 1

C9_Witness ==
    \E c \in Callers :
        /\ rj[c].pc = "returned"
        /\ Len(net[c].call.sent) = 3
        /\ net[c].call.sent = <<1, 2, 3>>
        /\ net[c].call.token_calls = 3


\* the errors _get_access_token raises
C27_AuthErrors == { GetAccessTokenError(r) : r \in TokenResults \ {"access_token"} }

\* C27: a call in which a token acquisition has failed has ended with the
\* authentication error at that acquisition: every earlier attempt obtained a
\* token, was sent and was followed by a sleep, the failed attempt was not
\* sent and not followed by a sleep, and no acquisition came after it, however
\* many retries remained.
C27_TokenFailureEndsCall ==
    \A c \in Callers :
        net[c].call.token_calls > Len(net[c].call.tokens)
        => LET call == net[c].call
               attempts == Len(call.tokens)
           IN  /\ call.token_calls = attempts + 1
               /\ Len(call.sent) = attempts
               /\ Len(call.sleeps) = attempts
               /\ \/ /\ rj[c].pc = "raised"
                     /\ rj[c].attempt = attempts
                     /\ IsSome(rj[c].exc) /\ rj[c].exc[1] \in C27_AuthErrors
                  \/ /\ rj[c].pc = "idle"
                     /\ top[c].pc = "raised"
                     /\ IsSome(top[c].exc) /\ top[c].exc[1] \in C27_AuthErrors

\* the token of the second attempt failed while a retry remained
C27_Witness ==
    \E c \in Callers :
        /\ rj[c].pc = "raised"
        /\ IsSome(rj[c].exc) /\ rj[c].exc[1] \in C27_AuthErrors
        /\ rj[c].attempt = 1
        /\ rj[c].attempt < client[c]._max_retries
        /\ Len(net[c].call.sent) = 1

----------------------------------------------------------------------------
(* The location resolver: pure parts *)

StartsWith(s, prefix) == Len(s) >= Len(prefix) /\ SubSeq(s, 1, Len(prefix)) = prefix

\* urllib.parse.quote on the characters the model's texts hold; letters,
\* digits and "-._~" pass unchanged
QuoteChar(ch, safe) ==
    IF ch \in safe THEN <<ch>>
    ELSE CASE ch = " " -> <<"%", "2", "0">>
           [] ch = "/" -> <<"%", "2", "F">>
           [] ch = ":" -> <<"%", "3", "A">>
           [] ch = "Shared Documents" -> <<"Shared", "%", "2", "0", "Documents">>
           [] OTHER -> <<ch>>

RECURSIVE Quote(_, _)
Quote(s, safe) == IF s = <<>> THEN <<>> ELSE QuoteChar(s[1], safe) \o Quote(Tail(s), safe)

\* repr() of a string
Repr(s) == <<"'">> \o s \o <<"'">>

\* or "" on an optional string
OrEmpty(o) == IF Truthy(o) THEN o[1] ELSE <<>>

\* mutant: a bare name is looked up under teams/ first
SiteCandidatesTeamsFirst(stripped_site_path) ==
    LET normalized_site_path == LStrip(stripped_site_path, {"/"})
    IN  IF \/ StartsWith(normalized_site_path, <<"s", "i", "t", "e", "s", "/">>)
           \/ StartsWith(normalized_site_path, <<"t", "e", "a", "m", "s", "/">>)
        THEN <<normalized_site_path>>
        ELSE IF \E i \in 1..Len(normalized_site_path) : normalized_site_path[i] = "/"
        THEN <<normalized_site_path>>
        ELSE << <<"t", "e", "a", "m", "s", "/">> \o normalized_site_path,
                <<"s", "i", "t", "e", "s", "/">> \o normalized_site_path,
                normalized_site_path >>

\* the candidates of resolve_sharepoint_site_id for a stripped site path
SiteCandidates(stripped_site_path) ==
    LET normalized_site_path == LStrip(stripped_site_path, {"/"})
    IN  IF \/ StartsWith(normalized_site_path, <<"s", "i", "t", "e", "s", "/">>)
           \/ StartsWith(normalized_site_path, <<"t", "e", "a", "m", "s", "/">>)
        THEN <<normalized_site_path>>
        ELSE IF \E i \in 1..Len(normalized_site_path) : normalized_site_path[i] = "/"
        THEN <<normalized_site_path>>
        ELSE << <<"s", "i", "t", "e", "s", "/">> \o normalized_site_path,
                <<"t", "e", "a", "m", "s", "/">> \o normalized_site_path,
                normalized_site_path >>

SiteUrl(normalized_hostname, candidate) ==
    GraphBaseUrl \o <<"/sites/">> \o Quote(normalized_hostname, {}) \o <<":/">>
    \o Quote(candidate, {"/"})
DrivesUrl(site_id) == GraphBaseUrl \o <<"/sites/">> \o Quote(site_id, {}) \o <<"/drives">>
DefaultDriveUrl(site_id) == GraphBaseUrl \o <<"/sites/">> \o Quote(site_id, {}) \o <<"/drive">>
ItemBaseUrl(drive_id, normalized_path) ==
    GraphBaseUrl \o <<"/drives/">> \o Quote(drive_id, {}) \o <<"/root:/">>
    \o Quote(normalized_path, {"/"})
\* mutant: the trailing-colon form is tried first
ItemUrlsColonFirst(base) == <<base \o <<":">>, base>>

\* the two forms resolve_drive_item_id_by_path tries, in order
ItemUrls(base) == <<base, base \o <<":">> >>

\* mutant: a 401 is taken for "site not found" too
IsSiteNotFoundOrUnauthorized(exc) ==
    \/ Contains(exc.msg, <<"Graph API error ", "404">>)
    \/ Contains(exc.msg, <<"Graph API error ", "401">>)
    \/ Contains(exc.msg, <<"\"itemNotFound\"">>)

\* the except clause of resolve_sharepoint_site_id: errors it takes for
\* "site not found"
IsSiteNotFound(exc) ==
    \/ Contains(exc.msg, <<"Graph API error ", "404">>)
    \/ Contains(exc.msg, <<"\"itemNotFound\"">>)

SiteNoIdError(hostname, site_path, candidate) ==
    GraphError(<<"Could not resolve SharePoint site id for hostname=">> \o Repr(hostname)
               \o <<" site_path=">> \o Repr(site_path)
               \o <<" (candidate=">> \o Repr(candidate) \o <<")">>)

\* resolve_sharepoint_site_id up to its loop: the frame it starts with
SiteEnter(hostname, site_path) ==
    LET normalized_hostname == Strip(hostname)
        normalized_site_path == Strip(site_path)
    IN  IF normalized_hostname = <<>>
        THEN [SiteIdle EXCEPT !.pc = "raised",
                              !.exc = Some(GraphError(<<"sharepoint_hostname is required">>))]
        ELSE IF normalized_site_path = <<>>
        THEN [SiteIdle EXCEPT !.pc = "raised",
                              !.exc = Some(GraphError(<<"sharepoint_site_path is required">>))]
        ELSE [SiteIdle EXCEPT !.pc = "loop", !.hostname = hostname, !.site_path = site_path,
                              !.normalized_hostname = normalized_hostname,
                              !.candidates = SiteCandidates(normalized_site_path), !.i = 1]

\* mutant: only "Documents" is a preferred name
PreferredNamesDocumentsOnly == {<<"Documents">>}

PreferredNames == {<<"Documents">>, <<"Shared Documents">>}

\* the drive resolve_document_library_drive_id picks from the listing, or None
RECURSIVE FirstPreferred(_)
FirstPreferred(items) ==
    IF items = <<>> THEN None
    ELSE IF items[1].isdict /\ items[1].name \in PreferredNames /\ items[1].id # <<>>
    THEN Some(items[1].id)
    ELSE FirstPreferred(Tail(items))

SelectDrive(payload) ==
    IF "value" \in payload.keys /\ payload.value.islist
    THEN LET drives == payload.value.items
             preferred == FirstPreferred(drives)
         IN  IF IsSome(preferred) THEN preferred
             ELSE IF Len(drives) = 1 /\ drives[1].isdict /\ drives[1].id # <<>>
             THEN Some(drives[1].id)
             ELSE None
    ELSE None

\* mutant: document-library names are taken off the front twice over
NormalizeDirectoryPathTwice(directory_path) ==
    LET Once(p) ==
            IF p = <<"Shared Documents">> THEN <<>>
            ELSE IF StartsWith(p, <<"Shared Documents", "/">>) THEN SubSeq(p, 3, Len(p))
            ELSE IF p = <<"Documents">> THEN <<>>
            ELSE IF StartsWith(p, <<"Documents", "/">>) THEN SubSeq(p, 3, Len(p))
            ELSE p
    IN  Once(Once(StripChars(Strip(directory_path), {"/"})))

\* the directory path with one leading document-library name taken off
NormalizeDirectoryPath(directory_path) ==
    LET p == StripChars(Strip(directory_path), {"/"})
    IN  IF p = <<"Shared Documents">> THEN <<>>
        ELSE IF StartsWith(p, <<"Shared Documents", "/">>) THEN SubSeq(p, 3, Len(p))
        ELSE IF p = <<"Documents">> THEN <<>>
        ELSE IF StartsWith(p, <<"Documents", "/">>) THEN SubSeq(p, 3, Len(p))
        ELSE p

ItemPath(directory_path, file_name) ==
    LET normalized_directory_path == NormalizeDirectoryPath(directory_path)
    IN  IF normalized_directory_path # <<>>
        THEN RStrip(normalized_directory_path, {"/"}) \o <<"/">> \o file_name
        ELSE file_name

\* resolve_drive_item_id_by_path up to its loop
ItemEnter(drive_id, item_path) ==
    LET normalized_path == StripChars(Strip(item_path), {"/"})
    IN  IF normalized_path = <<>>
        THEN [ItemIdle EXCEPT !.pc = "raised", !.drive_id = drive_id, !.item_path = item_path,
                              !.exc = Some(GraphError(<<"Excel file path is empty; check sharepoint_directory_path and excel_file_name">>))]
        ELSE [ItemIdle EXCEPT !.pc = "loop", !.drive_id = drive_id, !.item_path = item_path,
                              !.base = ItemBaseUrl(drive_id, normalized_path), !.i = 1]

ItemNotResolvedError(drive_id, item_path) ==
    GraphError(<<"Could not resolve drive item id for drive_id=">> \o Repr(drive_id)
               \o <<" path=">> \o Repr(item_path))

ExcelLocation(drive_id, workbook_item_id, worksheet_name, range_address) ==
    [drive_id |-> drive_id, workbook_item_id |-> workbook_item_id,
     worksheet_name |-> worksheet_name, range_address |-> range_address]

SharePointKeys ==
    <<"sharepoint_hostname", "sharepoint_site_path", "sharepoint_directory_path",
      "excel_file_name">>

\* mutant: only the first key without a value is reported
MissingFirstOnly(cfg) ==
    LET all == SelectSeq(SharePointKeys, LAMBDA key : Strip(OrEmpty(cfg[key])) = <<>>)
    IN  IF all = <<>> THEN <<>> ELSE <<all[1]>>

\* the SharePoint keys whose stripped value is empty, in the order of the check
Missing(cfg) ==
    SelectSeq(SharePointKeys, LAMBDA key : Strip(OrEmpty(cfg[key])) = <<>>)

MissingConfigurationError(missing) ==
    GraphError(<<"Missing configuration. Provide either (drive_id + workbook_item_id) or SharePoint fields: ">>
               \o Join(<<", ">>, [i \in 1..Len(missing) |-> <<missing[i]>>]))

----------------------------------------------------------------------------
(* The location resolver: its steps.  A method that calls _request_json    *)
(* waits for it ("wait") and resumes with what it returned or raised.      *)

RjDone(c, by) == rj[c].by = by /\ rj[c].pc \in {"returned", "raised"}

\* the caller takes the outcome of _request_json: the frame is gone
RjTaken(c) ==
    /\ rj' = [rj EXCEPT ![c] = RjIdle]
    /\ net' = [net EXCEPT ![c].call = CallStart]

\* mutant: the direct ids count only when the SharePoint keys are incomplete
DirectIdsUnlessSharePoint(cfg) ==
    Truthy(cfg.drive_id) /\ Truthy(cfg.workbook_item_id) /\ Missing(cfg) # <<>>

\* "if drive_id and item_id" of resolve_excel_location
DirectIds(cfg) == Truthy(cfg.drive_id) /\ Truthy(cfg.workbook_item_id)

\* resolve_excel_location(config), up to its first request; the configured
\* values are texts, on which str() gives its argument
ResolveExcelLocation(c) ==
    /\ top[c].op = "resolve_excel_location"
    /\ top[c].pc = "idle"
    /\ LET cfg == config[c]
           worksheet_name == cfg.worksheet_name
           range_address == IF Truthy(cfg.range_address) THEN cfg.range_address ELSE None
           hostname == Strip(OrEmpty(cfg.sharepoint_hostname))
           site_path == Strip(OrEmpty(cfg.sharepoint_site_path))
           directory_path == Strip(OrEmpty(cfg.sharepoint_directory_path))
           file_name == Strip(OrEmpty(cfg.excel_file_name))
           missing == Missing(cfg)
           site == SiteEnter(hostname, site_path)
       IN  IF DirectIds(cfg)
           THEN /\ top' = [top EXCEPT ![c].pc = "returned",
                                      ![c].location =
                                          Some(ExcelLocation(cfg.drive_id[1], cfg.workbook_item_id[1],
                                                             worksheet_name, range_address))]
                /\ UNCHANGED res
           ELSE IF missing # <<>>
           THEN /\ top' = [top EXCEPT ![c].pc = "raised",
                                      ![c].exc = Some(MissingConfigurationError(missing))]
                /\ UNCHANGED res
           ELSE /\ top' = [top EXCEPT ![c].pc = "running"]
                /\ res' = [res EXCEPT ![c].loc =
                                          [LocIdle EXCEPT !.pc = "site",
                                                          !.worksheet_name = worksheet_name,
                                                          !.range_address = range_address,
                                                          !.directory_path = directory_path,
                                                          !.file_name = file_name],
                                      ![c].site = site]
    /\ UNCHANGED <<config, client, rj, net, remote>>

\* resolve_sharepoint_site_id: the request for the next candidate
SiteRequest(c) ==
    /\ res[c].site.pc = "loop"
    /\ rj[c].pc = "idle"
    /\ LET f == res[c].site
       IN  RequestJsonCall(c, "site", SiteUrl(f.normalized_hostname, f.candidates[f.i]))
    /\ res' = [res EXCEPT ![c].site.pc = "wait"]
    /\ UNCHANGED <<config, client, top, remote>>

\* the loop of resolve_sharepoint_site_id moves past candidate i with
\* last_error set: the next candidate, or the raise after the loop
SiteNext(f, last_error) ==
    IF f.i < Len(f.candidates)
    THEN [f EXCEPT !.pc = "loop", !.i = @ + 1, !.last_error = Some(last_error)]
    ELSE [f EXCEPT !.pc = "raised", !.last_error = Some(last_error),
                   !.exc = Some(GraphError(last_error.msg))]

\* resolve_sharepoint_site_id: the outcome of the request for candidate i
SiteResume(c) ==
    /\ res[c].site.pc = "wait"
    /\ RjDone(c, "site")
    /\ LET f == res[c].site
           site_id == GetId(rj[c].ret[1])
       IN  res' = [res EXCEPT ![c].site =
                IF rj[c].pc = "raised"
                THEN IF rj[c].exc[1].type = "MicrosoftGraphExcelError"
                        /\ IsSiteNotFound(rj[c].exc[1])
                     THEN SiteNext(f, rj[c].exc[1])
                     ELSE [f EXCEPT !.pc = "raised", !.exc = rj[c].exc]
                ELSE IF Truthy(site_id)
                     THEN [f EXCEPT !.pc = "returned", !.ret = site_id]
                     ELSE SiteNext(f, SiteNoIdError(f.hostname, f.site_path, f.candidates[f.i]))]
    /\ RjTaken(c)
    /\ UNCHANGED <<config, client, top, remote>>

\* an exception leaves resolve_excel_location
LocRaise(c, exc) ==
    /\ top' = [top EXCEPT ![c].pc = "raised", ![c].exc = exc]
    /\ res' = [res EXCEPT ![c] = ResIdle]
    /\ UNCHANGED <<rj, net>>

\* resolve_excel_location after resolve_sharepoint_site_id: the drives listing
\* of resolve_document_library_drive_id is requested
LocAfterSite(c) ==
    /\ res[c].loc.pc = "site"
    /\ res[c].site.pc \in {"returned", "raised"}
    /\ IF res[c].site.pc = "raised"
       THEN LocRaise(c, res[c].site.exc)
       ELSE LET site_id == res[c].site.ret[1]
            IN  /\ res' = [res EXCEPT ![c].loc.pc = "drive",
                                      ![c].site = SiteIdle,
                                      ![c].drive = [DriveIdle EXCEPT !.pc = "drives",
                                                                     !.site_id = site_id]]
                /\ RequestJsonCall(c, "drive", DrivesUrl(site_id))
                /\ UNCHANGED top
    /\ UNCHANGED <<config, client, remote>>

\* resolve_document_library_drive_id: the listing arrives; a drive is picked
\* or resolve_default_drive_id requests the default drive
DriveResume(c) ==
    /\ res[c].drive.pc = "drives"
    /\ RjDone(c, "drive")
    /\ LET f == res[c].drive
           picked == SelectDrive(rj[c].ret[1])
       IN  IF rj[c].pc = "raised"
           THEN /\ res' = [res EXCEPT ![c].drive = [f EXCEPT !.pc = "raised", !.exc = rj[c].exc]]
                /\ RjTaken(c)
           ELSE IF IsSome(picked)
           THEN /\ res' = [res EXCEPT ![c].drive = [f EXCEPT !.pc = "returned", !.ret = picked]]
                /\ RjTaken(c)
           ELSE /\ res' = [res EXCEPT ![c].drive.pc = "default"]
                /\ RequestJsonCall(c, "drive", DefaultDriveUrl(f.site_id))
    /\ UNCHANGED <<config, client, top, remote>>

DefaultDriveError(site_id) ==
    GraphError(<<"Could not resolve default drive id for site_id=">> \o Repr(site_id))

\* resolve_default_drive_id: the outcome of its request
DefaultDriveResume(c) ==
    /\ res[c].drive.pc = "default"
    /\ RjDone(c, "drive")
    /\ LET f == res[c].drive
           drive_id == GetId(rj[c].ret[1])
       IN  res' = [res EXCEPT ![c].drive =
                IF rj[c].pc = "raised"
                THEN [f EXCEPT !.pc = "raised", !.exc = rj[c].exc]
                ELSE IF Truthy(drive_id)
                THEN [f EXCEPT !.pc = "returned", !.ret = drive_id]
                ELSE [f EXCEPT !.pc = "raised", !.exc = Some(DefaultDriveError(f.site_id))]]
    /\ RjTaken(c)
    /\ UNCHANGED <<config, client, top, remote>>

\* resolve_excel_location after the drive: the item path is composed and
\* resolve_drive_item_id_by_path entered
LocAfterDrive(c) ==
    /\ res[c].loc.pc = "drive"
    /\ res[c].drive.pc \in {"returned", "raised"}
    /\ IF res[c].drive.pc = "raised"
       THEN LocRaise(c, res[c].drive.exc)
       ELSE LET drive_id == res[c].drive.ret[1]
                item_path == ItemPath(res[c].loc.directory_path, res[c].loc.file_name)
            IN  /\ res' = [res EXCEPT ![c].loc.pc = "item",
                                      ![c].loc.drive_id = drive_id,
                                      ![c].loc.item_path = item_path,
                                      ![c].drive = DriveIdle,
                                      ![c].item = ItemEnter(drive_id, item_path)]
                /\ UNCHANGED <<top, rj, net>>
    /\ UNCHANGED <<config, client, remote>>

\* resolve_drive_item_id_by_path: the request for the next URL form
ItemRequest(c) ==
    /\ res[c].item.pc = "loop"
    /\ rj[c].pc = "idle"
    /\ RequestJsonCall(c, "item", ItemUrls(res[c].item.base)[res[c].item.i])
    /\ res' = [res EXCEPT ![c].item.pc = "wait"]
    /\ UNCHANGED <<config, client, top, remote>>

\* the loop of resolve_drive_item_id_by_path moves past form i
ItemNext(f) ==
    IF f.i < Len(ItemUrls(f.base))
    THEN [f EXCEPT !.pc = "loop", !.i = @ + 1]
    ELSE [f EXCEPT !.pc = "raised", !.exc = Some(ItemNotResolvedError(f.drive_id, f.item_path))]

\* resolve_drive_item_id_by_path: the outcome of the request for form i
ItemResume(c) ==
    /\ res[c].item.pc = "wait"
    /\ RjDone(c, "item")
    /\ LET f == res[c].item
           item_id == GetId(rj[c].ret[1])
       IN  res' = [res EXCEPT ![c].item =
                IF rj[c].pc = "raised"
                THEN IF rj[c].exc[1].type = "MicrosoftGraphExcelError"
                     THEN ItemNext(f)
                     ELSE [f EXCEPT !.pc = "raised", !.exc = rj[c].exc]
                ELSE IF Truthy(item_id)
                     THEN [f EXCEPT !.pc = "returned", !.ret = item_id]
                     ELSE ItemNext(f)]
    /\ RjTaken(c)
    /\ UNCHANGED <<config, client, top, remote>>

\* mutant: an id the configuration supplies is kept in the returned location
LocAfterItemKeepsSupplied(c) ==
    /\ res[c].loc.pc = "item"
    /\ res[c].item.pc \in {"returned", "raised"}
    /\ IF res[c].item.pc = "raised"
       THEN LocRaise(c, res[c].item.exc)
       ELSE /\ top' = [top EXCEPT ![c].pc = "returned",
                                  ![c].location =
                                      Some(ExcelLocation(
                                          IF Truthy(config[c].drive_id) THEN config[c].drive_id[1]
                                          ELSE res[c].loc.drive_id,
                                          IF Truthy(config[c].workbook_item_id)
                                          THEN config[c].workbook_item_id[1]
                                          ELSE res[c].item.ret[1],
                                          res[c].loc.worksheet_name,
                                          res[c].loc.range_address))]
            /\ res' = [res EXCEPT ![c] = ResIdle]
            /\ UNCHANGED <<rj, net>>
    /\ UNCHANGED <<config, client, remote>>

\* resolve_excel_location after the item: the location is returned
LocAfterItem(c) ==
    /\ res[c].loc.pc = "item"
    /\ res[c].item.pc \in {"returned", "raised"}
    /\ IF res[c].item.pc = "raised"
       THEN LocRaise(c, res[c].item.exc)
       ELSE /\ top' = [top EXCEPT ![c].pc = "returned",
                                  ![c].location =
                                      Some(ExcelLocation(res[c].loc.drive_id, res[c].item.ret[1],
                                                         res[c].loc.worksheet_name,
                                                         res[c].loc.range_address))]
            /\ res' = [res EXCEPT ![c] = ResIdle]
            /\ UNCHANGED <<rj, net>>
    /\ UNCHANGED <<config, client, remote>>

----------------------------------------------------------------------------
(* Resolution of one workbook configuration *)

Hostname == <<"contoso.sharepoint.com">>

\* a SharePoint configuration like the unit tests'
SharePointConfig ==
    [ request_timeout_seconds |-> 0,
      max_retries |-> 1,
      initial_backoff_seconds |-> 2,
      max_backoff_seconds |-> 3,
      drive_id |-> None,
      workbook_item_id |-> None,
      worksheet_name |-> <<"Sheet1">>,
      range_address |-> None,
      sharepoint_hostname |-> Some(Hostname),
      sharepoint_site_path |-> Some(<<"M">>),
      sharepoint_directory_path |-> Some(<<"Shared Documents">>),
      excel_file_name |-> Some(<<"report.xlsx">>) ]

SitePaths ==
    { <<"M">>, <<"/", "M">>, <<" ", "M", " ">>, <<"M", "/">>,
      <<"s", "i", "t", "e", "s", "/", "M">>,
      <<"/", "s", "i", "t", "e", "s", "/", "M", " ", "S">>,
      <<"t", "e", "a", "m", "s", "/", "M">>,
      <<"a", "/", "M">> }

DirectoryPaths ==
    { <<"Shared Documents">>,
      <<"Shared Documents", "/", "Reports", " ", "2025">>,
      <<"/", "Documents", "/", "R", "/">>,
      <<"Documents", "/", "Shared Documents", "/", "R">>,
      <<"R">> }

\* an identifier or text key: absent, empty or set
OptionalTexts(text) == {None, Some(<<>>), Some(text)}

ResolveConfigs ==
    \* the direct ids against the presence of the SharePoint keys
    { [SharePointConfig EXCEPT !.drive_id = d, !.workbook_item_id = w,
                               !.sharepoint_hostname = h, !.sharepoint_site_path = p,
                               !.sharepoint_directory_path = dir, !.excel_file_name = f] :
        d \in OptionalTexts(<<"drive">>), w \in OptionalTexts(<<"item">>),
        h \in {None, Some(<<" ">>), Some(Hostname)},
        p \in {None, Some(<<"M">>)},
        dir \in {None, Some(<<"Shared Documents">>)},
        f \in {None, Some(<<"report.xlsx">>)} }
    \cup { [SharePointConfig EXCEPT !.range_address = r, !.drive_id = d, !.workbook_item_id = d] :
            r \in OptionalTexts(<<"A1:B2">>), d \in {None, Some(<<"id">>)} }
    \* a worksheet name that is the empty text
    \cup { [SharePointConfig EXCEPT !.worksheet_name = <<>>, !.drive_id = d, !.workbook_item_id = d] :
            d \in {None, Some(<<"id">>)} }
    \cup { [SharePointConfig EXCEPT !.sharepoint_site_path = Some(p)] : p \in SitePaths }
    \cup { [SharePointConfig EXCEPT !.sharepoint_directory_path = Some(dir)] :
            dir \in DirectoryPaths }

DriveListings ==
    { JDrives(<< JDrive(<<"Documents">>, <<"drive-id">>) >>),
      JDrives(<< JDrive(<<"Other">>, <<"d1">>) >>),
      JDrives(<< JDrive(<<"Other">>, <<"d1">>), JDrive(<<"Shared Documents">>, <<"d2">>),
                 JDrive(<<"Documents">>, <<"d3">>) >>),
      JDrives(<< JDrive(<<"Documents">>, <<>>), JDrive(<<"Other">>, <<"d1">>) >>),
      JDrives(<< NotADrive >>),
      JDrives(<<>>),
      JEmpty }

\* a remote that answers each endpoint with the shapes Graph gives, fails with
\* 401, 404 and 503, and drops connections
ResolveRemote ==
    [ transport |-> TRUE,
      payloads |-> [k \in {"site", "drives", "drive", "item", "values", "other"} |->
                      CASE k = "site" -> {JId(<<"site-id">>), JId(<<>>), JEmpty}
                        [] k = "drives" -> DriveListings
                        [] k = "drive" -> {JId(<<"default-drive">>), JEmpty}
                        [] k = "item" -> {JId(<<"item-id">>), JEmpty}
                        [] OTHER -> {JEmpty}],
      errors |-> {401, 404},
      retryable |-> {503},
      retry_after |-> {None},
      retry_bodies |-> {b \in ErrorBodies : b.ct # JsonType} ]

InitResolve ==
    /\ config \in [{1} -> ResolveConfigs]
    /\ client = [c \in {1} |-> ClientInit(config[c])]
    /\ top = [c \in {1} |-> TopStart("resolve_excel_location")]
    /\ rj = [c \in {1} |-> RjIdle]
    /\ res = [c \in {1} |-> ResIdle]
    /\ net = [c \in {1} |-> NetStart]
    /\ remote = ResolveRemote

NextResolve ==
    \/ \E c \in Callers : ResolveExcelLocation(c)
    \/ \E c \in Callers : SiteRequest(c)
    \/ \E c \in Callers : SiteResume(c)
    \/ \E c \in Callers : LocAfterSite(c)
    \/ \E c \in Callers : DriveResume(c)
    \/ \E c \in Callers : DefaultDriveResume(c)
    \/ \E c \in Callers : LocAfterDrive(c)
    \/ \E c \in Callers : ItemRequest(c)
    \/ \E c \in Callers : ItemResume(c)
    \/ \E c \in Callers : LocAfterItem(c)
    \/ \E c \in Callers : Headers(c)
    \/ \E c \in Callers : RequestRaises(c)
    \/ \E c \in Callers : RequestResponds(c)
    \/ \E c \in Callers : Sleep(c)

SpecResolve == InitResolve /\ [][NextResolve]_vars

----------------------------------------------------------------------------
(* Properties of the location resolver, checked under SpecResolve *)

\* C1: with non-empty drive_id and workbook_item_id configured,
\* resolve_excel_location returns a location with exactly those ids and the
\* configured worksheet_name, and no _request_json call, HTTP request or
\* token acquisition ever happens, whatever the SharePoint keys hold.
C1_DirectIdsNoNetwork ==
    \A c \in Callers :
        ( /\ top[c].op = "resolve_excel_location"
          /\ Truthy(config[c].drive_id)
          /\ Truthy(config[c].workbook_item_id) )
        => /\ net[c] = NetStart
           /\ rj[c] = RjIdle
           /\ res[c] = ResIdle
           /\ top[c].pc \in {"idle", "returned"}
           /\ top[c].pc = "returned"
              => /\ IsSome(top[c].location)
                 /\ top[c].location[1].drive_id = config[c].drive_id[1]
                 /\ top[c].location[1].workbook_item_id = config[c].workbook_item_id[1]
                 /\ top[c].location[1].worksheet_name = config[c].worksheet_name

\* the call returned on direct ids although every SharePoint key was set too
C1_Witness ==
    \E c \in Callers :
        /\ top[c].op = "resolve_excel_location"
        /\ top[c].pc = "returned"
        /\ config[c].drive_id = Some(<<"drive">>)
        /\ config[c].workbook_item_id = Some(<<"item">>)
        /\ Missing(config[c]) = <<>>
        /\ top[c].location[1].drive_id = <<"drive">>
        /\ top[c].location[1].workbook_item_id = <<"item">>
        /\ net[c].requests = <<>>

\* the site name of a configuration whose site path is a bare name, else <<>>
C10_BareName(c) ==
    LET n == LStrip(Strip(OrEmpty(config[c].sharepoint_site_path)), {"/"})
    IN  IF \E i \in 1..Len(n) : n[i] = "/" THEN <<>> ELSE n

\* the URLs a bare name is looked up at, in the order of the claim
C10_Expected(c) ==
    LET name == C10_BareName(c)
        host == Strip(OrEmpty(config[c].sharepoint_hostname))
    IN  << SiteUrl(host, <<"s", "i", "t", "e", "s", "/">> \o name),
           SiteUrl(host, <<"t", "e", "a", "m", "s", "/">> \o name),
           SiteUrl(host, name) >>

C10_InSiteLookup(c) ==
    /\ top[c].op = "resolve_excel_location"
    /\ C10_BareName(c) # <<>>
    /\ res[c].site.pc # "idle"

\* the site requests are the expected ones in order, one at a time, and none
\* follows the one that was answered with an id
C10_OrderedState ==
    \A c \in Callers :
        /\ C10_InSiteLookup(c)
           => LET f == res[c].site
                  sent == IF f.pc = "loop" THEN f.i - 1 ELSE f.i
              IN  /\ f.i \in 1..3
                  /\ net[c].requests = SubSeq(C10_Expected(c), 1, sent)
                  /\ (rj[c].pc # "idle") <=> (f.pc = "wait")
                  /\ f.pc = "wait" => rj[c].url = C10_Expected(c)[f.i]
        /\ (top[c].op = "resolve_excel_location" /\ C10_BareName(c) # <<>>)
           => \A j \in 1..Len(net[c].requests) :
                  UrlKind(net[c].requests[j]) = "site"
                  => j <= 3 /\ net[c].requests[j] = C10_Expected(c)[j]

\* what the answer to one candidate leads to
C10_AnswerStep ==
    \A c \in Callers :
        ( C10_InSiteLookup(c) /\ res[c].site.pc = "wait" /\ res'[c].site.pc # "wait" )
        => LET f == res[c].site
               g == res'[c].site
               got_id == rj[c].pc = "returned" /\ Truthy(GetId(rj[c].ret[1]))
           IN  /\ rj[c].pc \in {"returned", "raised"}
               /\ got_id <=> g.pc = "returned"
               /\ g.pc = "returned" => g.ret = GetId(rj[c].ret[1])
               /\ g.pc = "loop" => g.i = f.i + 1
               /\ g.pc = "raised"
                  => /\ IsSome(g.exc)
                     /\ g.exc[1].type = "MicrosoftGraphExcelError"
                     /\ IF rj[c].pc = "raised"
                        THEN g.exc[1].msg = rj[c].exc[1].msg
                        ELSE /\ f.i = 3
                             /\ Contains(g.exc[1].msg,
                                         <<"Could not resolve SharePoint site id for hostname=">>)
                             /\ Contains(g.exc[1].msg,
                                         <<" (candidate=">> \o Repr(C10_BareName(c)))
               /\ g.pc \in {"returned", "loop", "raised"}

\* after the site lookup has ended, no site request is sent again
C10_NoLaterStep ==
    \A c \in Callers :
        ( /\ top[c].op = "resolve_excel_location"
          /\ C10_BareName(c) # <<>>
          /\ Len(net'[c].requests) > Len(net[c].requests)
          /\ UrlKind(net'[c].requests[Len(net'[c].requests)]) = "site" )
        => res[c].site.pc = "loop"

\* C10: for a bare site name resolve_sharepoint_site_id requests sites/{name},
\* teams/{name}, {name} in that order, one at a time; it returns the id of the
\* first candidate answered with a non-empty id and requests no later
\* candidate; when no candidate yields an id it raises with the message of
\* the last error it met.
C10_BareNameCandidates ==
    /\ []C10_OrderedState
    /\ [][C10_AnswerStep /\ C10_NoLaterStep]_vars

\* the third candidate was requested after the first two, and gave the id
C10_Witness ==
    \E c \in Callers :
        /\ C10_InSiteLookup(c)
        /\ res[c].site.pc = "returned"
        /\ res[c].site.ret = Some(<<"site-id">>)
        /\ net[c].requests = C10_Expected(c)
        /\ C10_BareName(c) = <<"M">>

\* a site path normalized as the claim has it: whitespace and the slashes at
\* both ends stripped
C11_Normalized(c) ==
    StripChars(Strip(OrEmpty(config[c].sharepoint_site_path)), {"/"})

\* C11: the candidates are those of the site path with surrounding whitespace
\* and both leading and trailing slashes stripped: three for a bare name, the
\* path itself when it starts with sites/ or teams/ or has an inner slash.
C11_CandidatesOfStrippedPath ==
    \A c \in Callers :
        res[c].site.pc \in {"loop", "wait", "returned"}
        => LET n == C11_Normalized(c)
           IN  res[c].site.candidates =
                   IF \E i \in 1..Len(n) : n[i] = "/"
                   THEN <<n>>
                   ELSE << <<"s", "i", "t", "e", "s", "/">> \o n,
                           <<"t", "e", "a", "m", "s", "/">> \o n, n >>

\* the failed request of a candidate was answered "not found": status 404, or
\* an error object whose code is itemNotFound
C12_NotFound(c) ==
    /\ IsSome(rj[c].resp)
    /\ \/ rj[c].resp[1].status_code = 404
       \/ /\ rj[c].resp[1].json.valid
          /\ rj[c].resp[1].json.error.code = <<"itemNotFound">>

\* another error leaves resolve_sharepoint_site_id as it is
C12_PropagateStep ==
    \A c \in Callers :
        ( /\ res[c].site.pc = "wait"
          /\ res'[c].site.pc # "wait"
          /\ rj[c].pc = "raised"
          /\ ~C12_NotFound(c) )
        => /\ res'[c].site.pc = "raised"
           /\ res'[c].site.exc = rj[c].exc
           /\ res'[c].site.i = res[c].site.i

\* once the site lookup or the whole call has failed, no request follows
C12_NoRequestAfterFailure ==
    \A c \in Callers :
        (top[c].op = "resolve_excel_location"
         /\ (res[c].site.pc = "raised" \/ top[c].pc = "raised"))
        => /\ net'[c].requests = net[c].requests
           /\ rj'[c] = RjIdle

C12_FailedState ==
    \A c \in Callers :
        res[c].site.pc = "raised" /\ res[c].site.candidates # <<>>
        => /\ rj[c] = RjIdle
           /\ Len(net[c].requests) = res[c].site.i

\* C12: a candidate request that fails with an error other than not-found
\* (token failure, 401, retries exhausted on 503 or on the transport) makes
\* resolve_sharepoint_site_id raise that error at once; no request is sent
\* for a remaining candidate.
C12_OtherErrorPropagates ==
    /\ []C12_FailedState
    /\ [][C12_PropagateStep /\ C12_NoRequestAfterFailure]_vars

\* the first of three candidates was answered 401 and the lookup has failed
C12_Witness ==
    \E c \in Callers :
        /\ res[c].site.pc = "raised"
        /\ Len(res[c].site.candidates) = 3
        /\ res[c].site.i = 1
        /\ Len(net[c].requests) = 1
        /\ Contains(res[c].site.exc[1].msg, <<"Graph API error ", "401">>)

\* C13: a candidate request that fails with a remote error whose code is
\* itemNotFound is taken for not-found whatever the status and however the
\* message was extracted: the error is remembered and the next candidate is
\* tried.
C13_ItemNotFoundContinues ==
    [][ \A c \in Callers :
          ( /\ res[c].site.pc = "wait"
            /\ res'[c].site.pc # "wait"
            /\ rj[c].pc = "raised"
            /\ IsSome(rj[c].resp)
            /\ rj[c].resp[1].json.valid
            /\ rj[c].resp[1].json.error.code = <<"itemNotFound">> )
          => /\ res'[c].site.last_error = rj[c].exc
             /\ res[c].site.i < Len(res[c].site.candidates) => res'[c].site.pc = "loop"
      ]_vars

\* C14: resolve_drive_item_id_by_path suppresses only not-found errors: when
\* the request for the primary form fails with another error, the call raises
\* that error at once and the trailing-colon form is not requested.
C14_OnlyNotFoundSuppressed ==
    [][ \A c \in Callers :
          ( /\ res[c].item.pc = "wait"
            /\ res'[c].item.pc # "wait"
            /\ res[c].item.i = 1
            /\ rj[c].pc = "raised"
            /\ ~C12_NotFound(c) )
          => /\ res'[c].item.pc = "raised"
             /\ res'[c].item.exc = rj[c].exc
      ]_vars

\* the item requests a caller has made so far
C15_ItemRequests(c) == SelectSeq(net[c].requests, LAMBDA u : UrlKind(u) = "item")

\* the plain form and the trailing-colon form of the item URL, in that order
C15_Forms(c) ==
    LET f == res[c].item
        plain == GraphBaseUrl \o <<"/drives/">> \o Quote(f.drive_id, {}) \o <<"/root:/">>
                 \o Quote(StripChars(Strip(f.item_path), {"/"}), {"/"})
    IN  <<plain, plain \o <<":">> >>

C15_FormsInOrder ==
    \A c \in Callers :
        /\ Len(C15_ItemRequests(c)) <= 2
        /\ (res[c].item.pc # "idle" /\ res[c].item.base # <<>>)
           => LET f == res[c].item
                  sent == IF f.pc = "loop" THEN f.i - 1 ELSE f.i
              IN  /\ f.i \in 1..2
                  /\ C15_ItemRequests(c) = SubSeq(C15_Forms(c), 1, sent)
                  /\ (rj[c].pc # "idle") <=> (f.pc = "wait")
                  /\ f.pc = "wait" => rj[c].url = C15_Forms(c)[f.i]

C15_AnswerStep ==
    \A c \in Callers :
        (res[c].item.pc = "wait" /\ res'[c].item.pc # "wait")
        => LET f == res[c].item
               g == res'[c].item
               got_id == rj[c].pc = "returned" /\ Truthy(GetId(rj[c].ret[1]))
           IN  /\ got_id <=> g.pc = "returned"
               /\ g.pc = "returned" => g.ret = GetId(rj[c].ret[1])
               /\ g.pc = "loop" => f.i = 1 /\ g.i = 2
               /\ g.pc = "raised"
                  => /\ f.i = 2
                     /\ g.exc[1].type = "MicrosoftGraphExcelError"
                     /\ g.exc[1].msg[1] = "Could not resolve drive item id for drive_id="
               /\ g.pc \in {"returned", "loop", "raised"}
               /\ net'[c].requests = net[c].requests

\* C15: resolve_drive_item_id_by_path requests the plain form first and the
\* trailing-colon form second; an id from the plain form ends the call after
\* one request, an id from the second form after two; no call makes more than
\* two requests, and it raises "Could not resolve drive item id" when neither
\* form yields an id.
C15_PlainThenColon ==
    /\ []C15_FormsInOrder
    /\ [][C15_AnswerStep]_vars

\* the trailing-colon form gave the id after the plain form had not
C15_Witness ==
    \E c \in Callers :
        /\ res[c].item.pc = "returned"
        /\ res[c].item.i = 2
        /\ res[c].item.ret = Some(<<"item-id">>)
        /\ C15_ItemRequests(c) = C15_Forms(c)

C16_Count(c, kind) == Len(SelectSeq(net[c].requests, LAMBDA u : UrlKind(u) = kind))

\* the listing is requested once, the default drive at most once and only
\* after the listing
C16_RequestCounts ==
    \A c \in Callers :
        /\ C16_Count(c, "drives") <= 1
        /\ C16_Count(c, "drive") <= 1
        /\ res[c].drive.pc = "drives" => C16_Count(c, "drives") = 1 /\ C16_Count(c, "drive") = 0
        /\ res[c].drive.pc = "default" => C16_Count(c, "drives") = 1 /\ C16_Count(c, "drive") = 1

\* what the answer to the listing leads to
C16_ListingStep ==
    \A c \in Callers :
        (res[c].drive.pc = "drives" /\ res'[c].drive.pc # "drives" /\ rj[c].pc = "returned")
        => LET payload == rj[c].ret[1]
               drives == IF "value" \in payload.keys /\ payload.value.islist
                         THEN payload.value.items ELSE <<>>
               named == { i \in 1..Len(drives) :
                            /\ drives[i].isdict
                            /\ drives[i].name \in {<<"Documents">>, <<"Shared Documents">>}
                            /\ drives[i].id # <<>> }
               first == CHOOSE i \in named : \A j \in named : i <= j
               g == res'[c].drive
           IN  IF named # {}
               THEN /\ g.pc = "returned"
                    /\ g.ret = Some(drives[first].id)
                    /\ net'[c].requests = net[c].requests
               ELSE IF Len(drives) = 1 /\ drives[1].isdict /\ drives[1].id # <<>>
               THEN /\ g.pc = "returned"
                    /\ g.ret = Some(drives[1].id)
                    /\ net'[c].requests = net[c].requests
               ELSE /\ g.pc = "default"
                    /\ net'[c].requests =
                           Append(net[c].requests,
                                  GraphBaseUrl \o <<"/sites/">> \o Quote(res[c].drive.site_id, {})
                                  \o <<"/drive">>)

\* what the answer of the default-drive endpoint leads to
C16_DefaultStep ==
    \A c \in Callers :
        (res[c].drive.pc = "default" /\ res'[c].drive.pc # "default" /\ rj[c].pc = "returned")
        => LET drive_id == GetId(rj[c].ret[1])
               g == res'[c].drive
           IN  /\ net'[c].requests = net[c].requests
               /\ IF Truthy(drive_id)
                  THEN g.pc = "returned" /\ g.ret = drive_id
                  ELSE /\ g.pc = "raised"
                       /\ g.exc[1].type = "MicrosoftGraphExcelError"
                       /\ g.exc[1].msg[1] = "Could not resolve default drive id for site_id="

\* C16: resolve_document_library_drive_id returns the id of the first listed
\* drive named "Documents" or "Shared Documents" that has an id; else the id
\* of the only listed drive when the listing has one drive and it has an id;
\* else the id of the default drive, raising when that has none.  The
\* default-drive endpoint is requested in the third case only: one request in
\* the first two cases, two in the third.
C16_DriveSelection ==
    /\ []C16_RequestCounts
    /\ [][C16_ListingStep /\ C16_DefaultStep]_vars

\* "Shared Documents" was picked although another drive was listed before it
\* and "Documents" after it
C16_Witness ==
    \E c \in Callers :
        /\ res[c].drive.pc = "returned"
        /\ res[c].drive.ret = Some(<<"d2">>)
        /\ C16_Count(c, "drives") = 1
        /\ C16_Count(c, "drive") = 0

\* a configured text that is absent or blank
C17_Blank(o) == ~IsSome(o) \/ \A i \in 1..Len(o[1]) : o[1][i] \in Whitespace

C17_Keys ==
    {"sharepoint_hostname", "sharepoint_site_path", "sharepoint_directory_path",
     "excel_file_name"}

C17_AbsentOrBlank(c) == { k \in C17_Keys : C17_Blank(config[c][k]) }

\* C17: without both direct ids and with a SharePoint key absent or blank,
\* resolve_excel_location raises one "Missing configuration" error that names
\* exactly the keys that are absent or blank, all of them, and no request is
\* made and no token acquired before it.
C17_MissingConfigurationNamesAll ==
    \A c \in Callers :
        ( /\ top[c].op = "resolve_excel_location"
          /\ ~(Truthy(config[c].drive_id) /\ Truthy(config[c].workbook_item_id))
          /\ C17_AbsentOrBlank(c) # {} )
        => /\ net[c] = NetStart
           /\ rj[c] = RjIdle
           /\ res[c] = ResIdle
           /\ top[c].pc \in {"idle", "raised"}
           /\ top[c].pc = "raised"
              => LET msg == top[c].exc[1].msg
                 IN  /\ top[c].exc[1].type = "MicrosoftGraphExcelError"
                     /\ msg[1] = "Missing configuration. Provide either (drive_id + workbook_item_id) or SharePoint fields: "
                     /\ \A k \in C17_Keys : Contains(msg, <<k>>) <=> k \in C17_AbsentOrBlank(c)
                     /\ Len(msg) = 2 * Cardinality(C17_AbsentOrBlank(c))

\* one direct id is set, the hostname is blank and the file name absent: the
\* error names both keys
C17_Witness ==
    \E c \in Callers :
        /\ top[c].pc = "raised"
        /\ Truthy(config[c].drive_id)
        /\ ~Truthy(config[c].workbook_item_id)
        /\ config[c].sharepoint_hostname = Some(<<" ">>)
        /\ C17_AbsentOrBlank(c) = {"sharepoint_hostname", "excel_file_name"}
        /\ Contains(top[c].exc[1].msg, <<"sharepoint_hostname", ", ", "excel_file_name">>)

C18_Directory(c) == StripChars(Strip(OrEmpty(config[c].sharepoint_directory_path)), {"/"})

\* the directory without its leading document-library segment, if it has one
C18_Remaining(c) ==
    LET dir == C18_Directory(c)
        library == /\ dir # <<>>
                   /\ dir[1] \in {"Shared Documents", "Documents"}
                   /\ Len(dir) = 1 \/ dir[2] = "/"
    IN  IF library THEN SubSeq(dir, 3, Len(dir)) ELSE dir

\* C18: the item path is the directory without at most one leading
\* document-library segment, then "/" and the file name, or the file name
\* alone when nothing of the directory remains; "Shared Documents/Reports
\* 2025" with report.xlsx gives "Reports 2025/report.xlsx" (requested as
\* Reports%202025/report.xlsx) and "Shared Documents" gives "report.xlsx".
C18_ItemPathComposed ==
    \A c \in Callers :
        res[c].loc.pc = "item"
        => LET file == Strip(OrEmpty(config[c].excel_file_name))
               item_path == res[c].loc.item_path
           IN  /\ item_path = IF C18_Remaining(c) = <<>> THEN file
                              ELSE C18_Remaining(c) \o <<"/">> \o file
               /\ C18_Directory(c) = <<"Shared Documents", "/", "Reports", " ", "2025">>
                  => /\ item_path = <<"Reports", " ", "2025", "/", "report.xlsx">>
                     /\ res[c].item.base =
                            GraphBaseUrl \o <<"/drives/">> \o res[c].loc.drive_id
                            \o <<"/root:/", "Reports", "%", "2", "0", "2025", "/", "report.xlsx">>
               /\ C18_Directory(c) = <<"Shared Documents">> => item_path = <<"report.xlsx">>
               /\ C18_Directory(c) = <<"Documents", "/", "Shared Documents", "/", "R">>
                  => item_path = <<"Shared Documents", "/", "R", "/", "report.xlsx">>

\* a second library name behind the first one stayed in the item path
C18_Witness ==
    \E c \in Callers :
        /\ res[c].loc.pc = "item"
        /\ config[c].sharepoint_directory_path =
               Some(<<"Documents", "/", "Shared Documents", "/", "R">>)
        /\ res[c].loc.item_path = <<"Shared Documents", "/", "R", "/", "report.xlsx">>
        /\ res[c].item.pc = "wait"

\* C19: every location resolve_excel_location returns, on direct ids or
\* through SharePoint, has a non-empty drive_id, workbook_item_id and
\* worksheet_name; a configuration or an answer that would leave one of them
\* empty makes the call fail.
C19_LocationComplete ==
    \A c \in Callers :
        (top[c].op = "resolve_excel_location" /\ top[c].pc = "returned")
        => /\ IsSome(top[c].location)
           /\ top[c].location[1].drive_id # <<>>
           /\ top[c].location[1].workbook_item_id # <<>>
           /\ top[c].location[1].worksheet_name # <<>>


\* exactly one of the direct ids is configured with a non-empty value
C28_ExactlyOneId(c) ==
    /\ top[c].op = "resolve_excel_location"
    /\ Truthy(config[c].drive_id) # Truthy(config[c].workbook_item_id)

C28_NoRequestWhenIncomplete ==
    \A c \in Callers :
        (C28_ExactlyOneId(c) /\ C17_AbsentOrBlank(c) # {})
        => /\ net[c] = NetStart
           /\ top[c].pc \in {"idle", "raised"}
           /\ top[c].pc = "raised" => top[c].exc = Some(MissingConfigurationError(Missing(config[c])))

C28_SuppliedIdUnused ==
    \A c \in Callers :
        (C28_ExactlyOneId(c) /\ top[c].pc = "returned")
        => LET loc == top[c].location[1]
           IN  /\ C16_Count(c, "site") >= 1
               /\ C16_Count(c, "drives") >= 1
               /\ C16_Count(c, "item") >= 1
               /\ Truthy(config[c].drive_id) => loc.drive_id # config[c].drive_id[1]
               /\ Truthy(config[c].workbook_item_id)
                  => loc.workbook_item_id # config[c].workbook_item_id[1]

C28_ReturnsResolvedIds ==
    \A c \in Callers :
        (C28_ExactlyOneId(c) /\ top[c].pc = "running" /\ top'[c].pc = "returned")
        => /\ res[c].item.pc = "returned"
           /\ top'[c].location[1].drive_id = res[c].loc.drive_id
           /\ top'[c].location[1].workbook_item_id = res[c].item.ret[1]

\* C28: with exactly one of drive_id and workbook_item_id set,
\* resolve_excel_location takes the SharePoint path: a complete SharePoint
\* configuration returns the drive id resolved from the site's document
\* library and the item id resolved from the path, after site, drive and item
\* requests, and neither is the supplied id; an absent or blank SharePoint
\* field raises the missing-configuration error before any request.
C28_OneIdTakesSharePointPath ==
    /\ [](C28_NoRequestWhenIncomplete /\ C28_SuppliedIdUnused)
    /\ [][C28_ReturnsResolvedIds]_vars

\* only drive_id was supplied, and the location carries the listed drive
C28_Witness ==
    \E c \in Callers :
        /\ C28_ExactlyOneId(c)
        /\ config[c].drive_id = Some(<<"drive">>)
        /\ top[c].pc = "returned"
        /\ top[c].location[1].drive_id = <<"drive-id">>
        /\ top[c].location[1].workbook_item_id = <<"item-id">>

----------------------------------------------------------------------------
(* get_worksheet_values *)

WorksheetValuesUrl(drive_id, item_id, worksheet_name, range_address) ==
    LET worksheet_segment == Quote(worksheet_name, {})
        base == GraphBaseUrl \o <<"/drives/">> \o Quote(drive_id, {}) \o <<"/items/">>
                \o Quote(item_id, {}) \o <<"/workbook/worksheets/">> \o worksheet_segment
    IN  IF Truthy(range_address)
        THEN base \o <<"/range(address='">> \o Quote(range_address[1], {}) \o <<"')">>
        ELSE base \o <<"/usedRange(valuesOnly=true)">>

NotAListError(values) ==
    GraphError(<<"Unexpected Graph response: 'values' is not a list (got ",
                 "<class '", values.type, "'>", ")">>)

\* mutant: whatever "values" holds is handed back
WorksheetValuesUnchecked(payload) ==
    LET values == GetValues(payload)
    IN  IF values.type = "NoneType"
        THEN [pc |-> "returned", ret |-> Some(<<>>), exc |-> None]
        ELSE [pc |-> "returned", ret |-> Some(values.rows), exc |-> None]

\* get_worksheet_values after its request: what it returns or raises
WorksheetValues(payload) ==
    LET values == GetValues(payload)
    IN  IF values.type = "NoneType"
        THEN [pc |-> "returned", ret |-> Some(<<>>), exc |-> None]
        ELSE IF values.type # "list"
        THEN [pc |-> "raised", ret |-> None, exc |-> Some(NotAListError(values))]
        ELSE [pc |-> "returned", ret |-> Some(values.rows), exc |-> None]

\* get_worksheet_values(drive_id, item_id, worksheet_name, range_address), up
\* to its request; the arguments are the fields of top[c].location
GetWorksheetValues(c) ==
    /\ top[c].op = "get_worksheet_values"
    /\ top[c].pc = "idle"
    /\ LET l == top[c].location[1]
       IN  RequestJsonCall(c, "values",
                           WorksheetValuesUrl(l.drive_id, l.workbook_item_id, l.worksheet_name,
                                              l.range_address))
    /\ top' = [top EXCEPT ![c].pc = "running"]
    /\ UNCHANGED <<config, client, res, remote>>

\* get_worksheet_values: the outcome of its request
ValuesResume(c) ==
    /\ top[c].op = "get_worksheet_values"
    /\ top[c].pc = "running"
    /\ RjDone(c, "values")
    /\ LET out == IF rj[c].pc = "raised"
                  THEN [pc |-> "raised", ret |-> None, exc |-> rj[c].exc]
                  ELSE WorksheetValues(rj[c].ret[1])
       IN  top' = [top EXCEPT ![c].pc = out.pc, ![c].ret = out.ret, ![c].exc = out.exc]
    /\ RjTaken(c)
    /\ UNCHANGED <<config, client, res, remote>>

SampleRows == << <<CStr(<<"a">>), CStr(<<"b">>)>>, <<CInt(<<"1">>), CNone>> >>

\* what the range endpoint may answer with
ValuesPayloads ==
    { JEmpty, JValues(NoValues), JValues(JMatrix(<<>>)), JValues(JMatrix(SampleRows)),
      JValues(JScalar("str")), JValues(JScalar("dict")) }

ValuesLocations ==
    { ExcelLocation(<<"drive-id">>, <<"item-id">>, w, r) :
        w \in {<<"Sheet1">>, <<"My", " ", "Sheet">>},
        r \in {None, Some(<<>>), Some(<<"A", "1", ":", "B", "2">>)} }

ValuesRemote ==
    [ transport |-> TRUE,
      payloads |-> [k \in {"site", "drives", "drive", "item", "values", "other"} |->
                      IF k = "values" THEN ValuesPayloads ELSE {JEmpty}],
      errors |-> {404},
      retryable |-> {503},
      retry_after |-> {None},
      retry_bodies |-> {b \in ErrorBodies : b.ct # JsonType} ]

InitValues ==
    /\ config = [c \in {1} |-> SharePointConfig]
    /\ client = [c \in {1} |-> ClientInit(config[c])]
    /\ top \in [{1} -> { [TopStart("get_worksheet_values") EXCEPT !.location = Some(l)] :
                           l \in ValuesLocations }]
    /\ rj = [c \in {1} |-> RjIdle]
    /\ res = [c \in {1} |-> ResIdle]
    /\ net = [c \in {1} |-> NetStart]
    /\ remote = ValuesRemote

NextValues ==
    \/ \E c \in Callers : GetWorksheetValues(c)
    \/ \E c \in Callers : ValuesResume(c)
    \/ \E c \in Callers : Headers(c)
    \/ \E c \in Callers : RequestRaises(c)
    \/ \E c \in Callers : RequestResponds(c)
    \/ \E c \in Callers : Sleep(c)

SpecValues == InitValues /\ [][NextValues]_vars

----------------------------------------------------------------------------
(* Properties of get_worksheet_values, checked under SpecValues *)

\* get_worksheet_values takes the answer of its request
C20_Answered(c) ==
    /\ top[c].op = "get_worksheet_values"
    /\ top[c].pc = "running"
    /\ top'[c].pc # "running"
    /\ rj[c].pc = "returned"

\* one request, made at the start, whatever the outcome
C20_OneRequest ==
    \A c \in Callers :
        (top[c].op = "get_worksheet_values" /\ top[c].pc # "idle")
        => /\ Len(net[c].requests) = 1
           /\ LET l == top[c].location[1]
              IN  net[c].requests[1] =
                      WorksheetValuesUrl(l.drive_id, l.workbook_item_id, l.worksheet_name,
                                         l.range_address)
           /\ top[c].pc \in {"returned", "raised"} => rj[c] = RjIdle

\* C20 as stated: the empty matrix without a "values" member, the list when
\* "values" is a list, and an error whenever "values" is present and no list;
\* one request either way.
C20_PresentNotListFails ==
    /\ []C20_OneRequest
    /\ [][ \A c \in Callers :
             C20_Answered(c)
             => LET payload == rj[c].ret[1]
                IN  /\ "values" \notin payload.keys
                       => top'[c].pc = "returned" /\ top'[c].ret = Some(<<>>)
                    /\ ("values" \in payload.keys /\ payload.values.type = "list")
                       => top'[c].pc = "returned" /\ top'[c].ret = Some(payload.values.rows)
                    /\ ("values" \in payload.keys /\ payload.values.type # "list")
                       => top'[c].pc = "raised"
         ]_vars

\* C20, amended: the empty matrix when "values" is absent or null, the list
\* unchanged when it is a list, the "'values' is not a list" error when it is
\* of another type; one request either way.
C20_NullOrAbsentIsEmpty ==
    /\ []C20_OneRequest
    /\ [][ \A c \in Callers :
             C20_Answered(c)
             => LET payload == rj[c].ret[1]
                    absent == "values" \notin payload.keys
                IN  /\ (absent \/ payload.values.type = "NoneType")
                       => top'[c].pc = "returned" /\ top'[c].ret = Some(<<>>)
                    /\ (~absent /\ payload.values.type = "list")
                       => top'[c].pc = "returned" /\ top'[c].ret = Some(payload.values.rows)
                    /\ (~absent /\ payload.values.type \notin {"list", "NoneType"})
                       => /\ top'[c].pc = "raised"
                          /\ top'[c].exc[1].type = "MicrosoftGraphExcelError"
                          /\ top'[c].exc[1].msg[1] =
                                 "Unexpected Graph response: 'values' is not a list (got "
                    /\ net'[c].requests = net[c].requests
         ]_vars

\* the rows of an addressed range came back as they were sent
C20_Witness ==
    \E c \in Callers :
        /\ top[c].op = "get_worksheet_values"
        /\ top[c].pc = "returned"
        /\ top[c].ret = Some(SampleRows)
        /\ Truthy(top[c].location[1].range_address)
        /\ Len(net[c].requests) = 1

----------------------------------------------------------------------------
(* iter_worksheet_records: a generator over the rows of a values matrix *)

MaxRows == 3

\* mutant: the header text keeps the blanks around it
HeaderTextUntrimmed(x) == IF x.t = "NoneType" THEN <<>> ELSE x.s

\* str(x).strip() if x is not None else ""
HeaderText(x) == IF x.t = "NoneType" THEN <<>> ELSE Strip(x.s)

\* the header list, or None when header_row names no row of the matrix
HeaderOf(values, header_row) ==
    LET header_idx == header_row - 1
    IN  IF header_row > 0 /\ 0 <= header_idx /\ header_idx < Len(values)
        THEN Some([j \in 1..Len(values[header_idx + 1]) |->
                      HeaderText(values[header_idx + 1][j])])
        ELSE None

\* mutant: positions are counted from 0
ColZeroBased(j) == <<"col_", DigitStr(j - 1)>>

\* f"col_{j + 1}" for the 0-based index j, that is col_ and the position
Col(j) == <<"col_", DigitStr(j)>>

\* cols of one row: the header, or col_1..col_n for the row's length
ColsOf(header, row) ==
    IF IsSome(header) THEN header[1] ELSE [j \in 1..Len(row) |-> Col(j)]

\* the key of the cell at position j
KeyOf(cols, j) == IF j <= Len(cols) /\ cols[j] # <<>> THEN cols[j] ELSE Col(j)

\* mutant: the first cell with a key keeps it
DataLeftmost(cols, row) ==
    LET keys == { KeyOf(cols, j) : j \in 1..Len(row) }
        First(k) == CHOOSE j \in 1..Len(row) :
                        /\ KeyOf(cols, j) = k
                        /\ \A m \in 1..Len(row) : KeyOf(cols, m) = k => m >= j
    IN  [k \in keys |-> row[First(k)]]

\* the dict comprehension: a later cell replaces an earlier one with its key
DataOf(cols, row) ==
    LET keys == { KeyOf(cols, j) : j \in 1..Len(row) }
        Last(k) == CHOOSE j \in 1..Len(row) :
                       /\ KeyOf(cols, j) = k
                       /\ \A m \in 1..Len(row) : KeyOf(cols, m) = k => m <= j
    IN  [k \in keys |-> row[Last(k)]]

\* mutant: no row is left out
SkipsRowNever(header, i, header_idx) == FALSE

\* "if header is not None and i == header_idx: continue", i 0-based
SkipsRow(header, i, header_idx) == IsSome(header) /\ i = header_idx

IterStart(values, header_row) ==
    [op |-> "iter_worksheet_records", pc |-> "start", values |-> values,
     header_row |-> header_row, header |-> None, i |-> 0, out |-> <<>>]

\* the generator runs to its loop, or ends on an empty matrix
IterBegin(c) ==
    /\ top[c].op = "iter_worksheet_records"
    /\ top[c].pc = "start"
    /\ IF top[c].values = <<>>
       THEN top' = [top EXCEPT ![c].pc = "done"]
       ELSE top' = [top EXCEPT ![c].pc = "loop",
                               ![c].header = HeaderOf(top[c].values, top[c].header_row)]
    /\ UNCHANGED <<config, client, rj, res, net, remote>>

\* one turn of the loop: the header row is passed over, another row yields
\* its record
IterRow(c) ==
    /\ top[c].op = "iter_worksheet_records"
    /\ top[c].pc = "loop"
    /\ top[c].i < Len(top[c].values)
    /\ LET f == top[c]
           row == f.values[f.i + 1]
           cols == ColsOf(f.header, row)
       IN  IF SkipsRow(f.header, f.i, f.header_row - 1)
           THEN top' = [top EXCEPT ![c].i = @ + 1]
           ELSE top' = [top EXCEPT ![c].i = @ + 1,
                                   ![c].out = Append(@, [row_number |-> f.i + 1,
                                                         data |-> DataOf(cols, row)])]
    /\ UNCHANGED <<config, client, rj, res, net, remote>>

\* the loop has run through the matrix
IterEnd(c) ==
    /\ top[c].op = "iter_worksheet_records"
    /\ top[c].pc = "loop"
    /\ top[c].i = Len(top[c].values)
    /\ top' = [top EXCEPT ![c].pc = "done"]
    /\ UNCHANGED <<config, client, rj, res, net, remote>>

\* rows as Graph sends them: texts with and without blanks around them, empty
\* and null cells, numbers, repeated texts, a text that reads like a
\* positional key, and rows of every width from 0 to 4
SheetRows ==
    { <<CStr(<<"a">>), CStr(<<" ", "b", " ">>)>>,
      <<CStr(<<"a">>), CNone, CStr(<<"a">>)>>,
      <<CStr(<<" ">>), CStr(<<"col_", "1">>), CInt(<<"7">>)>>,
      <<>>,
      <<CInt(<<"1">>)>>,
      <<CStr(<<"x">>), CStr(<<>>), CStr(<<"z">>), CNone>> }

RECURSIVE Matrices(_)
Matrices(n) ==
    IF n = 0 THEN {<<>>}
    ELSE Matrices(n - 1)
         \cup { Append(m, r) : m \in { x \in Matrices(n - 1) : Len(x) = n - 1 }, r \in SheetRows }

HeaderRows == (0 - 1)..(MaxRows + 1)

InitRecords ==
    /\ config = [c \in {1} |-> SharePointConfig]
    /\ client = [c \in {1} |-> ClientInit(config[c])]
    /\ top \in [{1} -> { IterStart(values, header_row) :
                           values \in Matrices(MaxRows), header_row \in HeaderRows }]
    /\ rj = [c \in {1} |-> RjIdle]
    /\ res = [c \in {1} |-> ResIdle]
    /\ net = [c \in {1} |-> NetStart]
    /\ remote = ValuesRemote

NextRecords ==
    \/ \E c \in Callers : IterBegin(c)
    \/ \E c \in Callers : IterRow(c)
    \/ \E c \in Callers : IterEnd(c)

SpecRecords == InitRecords /\ [][NextRecords]_vars

----------------------------------------------------------------------------
(* Properties of iter_worksheet_records, checked under SpecRecords *)

C21_Iterating(c) == top[c].op = "iter_worksheet_records" /\ top[c].pc \in {"loop", "done"}

\* C21: for header_row = h >= 1 and a matrix of at least h rows, no record
\* has row_number h, and the row numbers emitted are the 1-based positions of
\* the rows without h, in increasing order.
C21_RowNumbersSkipHeader ==
    \A c \in Callers :
        ( /\ C21_Iterating(c)
          /\ top[c].header_row >= 1
          /\ Len(top[c].values) >= top[c].header_row )
        => LET f == top[c]
               emitted == [k \in 1..Len(f.out) |-> f.out[k].row_number]
           IN  /\ emitted = SelectSeq([k \in 1..f.i |-> k], LAMBDA k : k # f.header_row)
               /\ f.pc = "done" => f.i = Len(f.values)

\* the second of three rows is the header: records 1 and 3 were emitted
C21_Witness ==
    \E c \in Callers :
        /\ top[c].op = "iter_worksheet_records"
        /\ top[c].pc = "done"
        /\ top[c].header_row = 2
        /\ Len(top[c].values) = 3
        /\ Len(top[c].out) = 2
        /\ top[c].out[1].row_number = 1
        /\ top[c].out[2].row_number = 3

\* C22: for header_row = 0 every row gives one record, whose data has the
\* keys col_1..col_w for the width w of that row, each mapped to the cell at
\* that position.
C22_PositionalKeys ==
    \A c \in Callers :
        (C21_Iterating(c) /\ top[c].header_row = 0)
        => LET f == top[c]
           IN  /\ Len(f.out) = f.i
               /\ f.pc = "done" => f.i = Len(f.values)
               /\ \A k \in 1..Len(f.out) :
                      LET row == f.values[k]
                          data == f.out[k].data
                      IN  /\ f.out[k].row_number = k
                          /\ DOMAIN data = { <<"col_", DigitStr(j)>> : j \in 1..Len(row) }
                          /\ \A j \in 1..Len(row) : data[<<"col_", DigitStr(j)>>] = row[j]

\* two rows of different widths were emitted without a header
C22_Witness ==
    \E c \in Callers :
        /\ top[c].op = "iter_worksheet_records"
        /\ top[c].pc = "done"
        /\ top[c].header_row = 0
        /\ Len(top[c].out) = 2
        /\ Cardinality(DOMAIN top[c].out[1].data) = 3
        /\ Cardinality(DOMAIN top[c].out[2].data) = 1

\* the key the claim gives column j: the trimmed text of header cell j, or
\* col_j when that cell is null, empty after trimming, or beyond the header
C23_Key(c, j) ==
    LET f == top[c]
        hdr == IF f.header_row <= Len(f.values) THEN f.values[f.header_row] ELSE <<>>
        text == IF j > Len(hdr) \/ hdr[j].t = "NoneType" THEN <<>>
                ELSE StripChars(hdr[j].s, {" ", "\t", "\n", "\r"})
    IN  IF text = <<>> THEN <<"col_", DigitStr(j)>> ELSE text

\* C23: with header_row >= 1 the keys of a record are C23_Key of the
\* positions its row has, no more.
C23_HeaderKeys ==
    \A c \in Callers :
        (C21_Iterating(c) /\ top[c].header_row >= 1)
        => \A k \in 1..Len(top[c].out) :
               LET row == top[c].values[top[c].out[k].row_number]
               IN  DOMAIN top[c].out[k].data = { C23_Key(c, j) : j \in 1..Len(row) }

\* a header of two texts over a row of four cells: the trimmed texts, then
\* col_3 and col_4
C23_Witness ==
    \E c \in Callers :
        /\ top[c].op = "iter_worksheet_records"
        /\ top[c].pc = "done"
        /\ top[c].header_row = 1
        /\ Len(top[c].values) = 2
        /\ top[c].values[1] = <<CStr(<<"a">>), CStr(<<" ", "b", " ">>)>>
        /\ Len(top[c].values[2]) = 4
        /\ Len(top[c].out) = 1
        /\ DOMAIN top[c].out[1].data = {<<"a">>, <<"b">>, <<"col_", "3">>, <<"col_", "4">>}

\* C29: with header_row >= 1, a key that several columns of a row yield has
\* one entry in data, with the value of the rightmost of those cells; data
\* can have fewer entries than the row has cells.
C29_RightmostWins ==
    \A c \in Callers :
        (C21_Iterating(c) /\ top[c].header_row >= 1)
        => \A k \in 1..Len(top[c].out) :
               LET row == top[c].values[top[c].out[k].row_number]
                   data == top[c].out[k].data
               IN  /\ Cardinality(DOMAIN data) <= Len(row)
                   /\ \A j \in 1..Len(row) :
                          (\A m \in (j + 1)..Len(row) : C23_Key(c, m) # C23_Key(c, j))
                          => data[C23_Key(c, j)] = row[j]

\* the header text col_1 in column 2 meets the fallback key of column 1: one
\* entry, with the cell of column 2
C29_Witness ==
    \E c \in Callers :
        /\ top[c].op = "iter_worksheet_records"
        /\ top[c].header_row = 1
        /\ Len(top[c].values) >= 2
        /\ top[c].values[1] = <<CStr(<<" ">>), CStr(<<"col_", "1">>), CInt(<<"7">>)>>
        /\ Len(top[c].out) >= 1
        /\ top[c].values[2] = <<CStr(<<"a">>), CStr(<<" ", "b", " ">>)>>
        /\ DOMAIN top[c].out[1].data = {<<"col_", "1">>}
        /\ top[c].out[1].data[<<"col_", "1">>] = CStr(<<" ", "b", " ">>)

----------------------------------------------------------------------------
(* SourceMicrosoftExcelOnline.streams and iter_workbook_configs *)

MaxWorkbooks == 3

\* a key of a configuration mapping: absent, or present with a value (None is
\* the JSON null)
Absent == [present |-> FALSE, v |-> None]
Present(o) == [present |-> TRUE, v |-> o]

\* an element of "workbooks" that is not an object
NotAMapping == [mapping |-> FALSE, stream_name |-> Absent, worksheet_name |-> Absent]

\* merged = dict(config); merged.pop("workbooks", None); merged.update(dict(workbook))
Merged(cfg, workbook) ==
    [ stream_name |-> IF workbook.stream_name.present THEN workbook.stream_name
                      ELSE cfg.stream_name,
      worksheet_name |-> IF workbook.worksheet_name.present THEN workbook.worksheet_name
                         ELSE cfg.worksheet_name ]

\* the legacy branch: the root configuration without "workbooks"
MergedLegacy(cfg) == [stream_name |-> cfg.stream_name, worksheet_name |-> cfg.worksheet_name]

\* isinstance(workbooks, list)
IsList(cfg) == IsSome(cfg.workbooks)

NotAnObjectError(idx) ==
    [type |-> "ValueError", msg |-> <<"workbooks[", DigitStr(idx), "] must be an object">>]

MissingWorkbooksError ==
    [type |-> "ValueError",
     msg |-> <<"Missing required configuration: provide 'workbooks' (preferred) or legacy workbook fields">>]

\* str(get("stream_name") or get("worksheet_name") or f"worksheet_{idx + 1}")
BaseName(workbook_config, idx) ==
    IF Truthy(workbook_config.stream_name.v) THEN workbook_config.stream_name.v[1]
    ELSE IF Truthy(workbook_config.worksheet_name.v) THEN workbook_config.worksheet_name.v[1]
    ELSE <<"worksheet", "_", DigitStr(idx + 1)>>

\* name_counts.get(base_name, 0)
CountOf(name_counts, base_name) ==
    IF base_name \in DOMAIN name_counts THEN name_counts[base_name] ELSE 0

\* base_name if count == 1 else f"{base_name}_{count}"
StreamNameFor(base_name, count) ==
    IF count = 1 THEN base_name ELSE base_name \o <<"_", DigitStr(count)>>

\* WorksheetValuesStream(config=..., stream_name_override=...): what the
\* object keeps of its arguments, and the index it was built for
WorksheetValuesStream(workbook_config, stream_name_override, idx) ==
    [_config |-> workbook_config, _stream_name_override |-> stream_name_override, idx |-> idx]

\* WorksheetValuesStream.name
StreamName(stream) ==
    IF stream._stream_name_override # <<>> THEN stream._stream_name_override
    ELSE IF Truthy(stream._config.stream_name.v) THEN stream._config.stream_name.v[1]
    ELSE IF Truthy(stream._config.worksheet_name.v) THEN stream._config.worksheet_name.v[1]
    ELSE <<"worksheet">>

StreamsStart ==
    [op |-> "streams", pc |-> "idle", idx |-> 0, name_counts |-> [k \in {} |-> 0],
     streams |-> <<>>, exc |-> None]

\* streams(config) is entered: the list and the counts are empty
StreamsCall(c) ==
    /\ top[c].op = "streams"
    /\ top[c].pc = "idle"
    /\ top' = [top EXCEPT ![c].pc = "loop"]
    /\ UNCHANGED <<config, client, rj, res, net, remote>>

\* the workbook iter_workbook_configs yields next, if it yields one
HasNext(cfg, idx) ==
    IF IsList(cfg) THEN idx < Len(cfg.workbooks[1]) ELSE idx = 0

\* one turn of the for loop: iter_workbook_configs yields the next merged
\* configuration, or raises; the loop body names the stream and appends it
StreamsNext(c) ==
    /\ top[c].op = "streams"
    /\ top[c].pc = "loop"
    /\ HasNext(config[c], top[c].idx)
    /\ LET cfg == config[c]
           f == top[c]
           fails == IF IsList(cfg) THEN ~cfg.workbooks[1][f.idx + 1].mapping
                    ELSE ~cfg.worksheet_name.present
           exc == IF IsList(cfg) THEN NotAnObjectError(f.idx) ELSE MissingWorkbooksError
           workbook_config == IF IsList(cfg) THEN Merged(cfg, cfg.workbooks[1][f.idx + 1])
                              ELSE MergedLegacy(cfg)
           base_name == BaseName(workbook_config, f.idx)
           count == CountOf(f.name_counts, base_name) + 1
           stream_name == StreamNameFor(base_name, count)
       IN  IF fails
           THEN top' = [top EXCEPT ![c].pc = "raised", ![c].exc = Some(exc)]
           ELSE top' = [top EXCEPT
                           ![c].idx = @ + 1,
                           ![c].name_counts =
                               [k \in DOMAIN f.name_counts \cup {base_name} |->
                                   IF k = base_name THEN count ELSE f.name_counts[k]],
                           ![c].streams =
                               Append(@, WorksheetValuesStream(workbook_config, stream_name, f.idx))]
    /\ UNCHANGED <<config, client, rj, res, net, remote>>

\* return streams
StreamsReturn(c) ==
    /\ top[c].op = "streams"
    /\ top[c].pc = "loop"
    /\ ~HasNext(config[c], top[c].idx)
    /\ top' = [top EXCEPT ![c].pc = "returned"]
    /\ UNCHANGED <<config, client, rj, res, net, remote>>

\* names as users give them: a plain name, the same name with the suffix the
\* connector itself would add, and the empty text
StreamNames == {Absent, Present(Some(<<>>)), Present(Some(<<"a">>)), Present(Some(<<"a", "_", "2">>))}
WorksheetNames == {Absent, Present(None), Present(Some(<<"a">>))}

WorkbookEntries ==
    { [mapping |-> TRUE, stream_name |-> sn, worksheet_name |-> wn] :
        sn \in StreamNames, wn \in WorksheetNames }
    \cup {NotAMapping}

RECURSIVE WorkbookLists(_)
WorkbookLists(n) ==
    IF n = 0 THEN {<<>>}
    ELSE WorkbookLists(n - 1)
         \cup { Append(l, w) : l \in { x \in WorkbookLists(n - 1) : Len(x) = n - 1 },
                               w \in WorkbookEntries }

StreamsConfigs ==
    { [workbooks |-> Some(l), stream_name |-> Absent, worksheet_name |-> wn] :
        l \in WorkbookLists(MaxWorkbooks), wn \in {Absent, Present(Some(<<"a">>))} }
    \cup { [workbooks |-> None, stream_name |-> sn, worksheet_name |-> wn] :
            sn \in StreamNames, wn \in WorksheetNames }

InitStreams ==
    /\ config \in [{1} -> StreamsConfigs]
    /\ client = [c \in {1} |-> ClientInit(SharePointConfig)]
    /\ top = [c \in {1} |-> StreamsStart]
    /\ rj = [c \in {1} |-> RjIdle]
    /\ res = [c \in {1} |-> ResIdle]
    /\ net = [c \in {1} |-> NetStart]
    /\ remote = ValuesRemote

NextStreams ==
    \/ \E c \in Callers : StreamsCall(c)
    \/ \E c \in Callers : StreamsNext(c)
    \/ \E c \in Callers : StreamsReturn(c)

SpecStreams == InitStreams /\ [][NextStreams]_vars

----------------------------------------------------------------------------
(* Properties of streams, checked under SpecStreams *)

C24_Returned(c) ==
    /\ top[c].op = "streams"
    /\ top[c].pc = "returned"
    /\ IsList(config[c])

\* streams returned one stream per workbook entry, in the order of the entries
C24_OnePerWorkbookInOrder ==
    \A c \in Callers :
        C24_Returned(c)
        => /\ Len(top[c].streams) = Len(config[c].workbooks[1])
           /\ \A k \in 1..Len(top[c].streams) :
                  /\ top[c].streams[k].idx = k - 1
                  /\ top[c].streams[k]._config = Merged(config[c], config[c].workbooks[1][k])

C24_NamesDistinct(c) ==
    \A j, k \in 1..Len(top[c].streams) :
        j # k => StreamName(top[c].streams[j]) # StreamName(top[c].streams[k])

\* C24 (as stated): streams(config) returns one stream per workbook entry, in
\* config order, and the names of the returned streams are pairwise distinct
\* for every combination of stream_name and worksheet_name values.
C24_OnePerWorkbookDistinctNames ==
    /\ C24_OnePerWorkbookInOrder
    /\ \A c \in Callers : C24_Returned(c) => C24_NamesDistinct(c)

----------------------------------------------------------------------------
(* _extract_graph_error_message applied to the responses of a remote *)

\* a body of n characters "x" between the given blanks
LongBody(lead, n, trail) == lead \o [i \in 1..n |-> "x"] \o trail

\* response bodies: text and parsed form
ExtractBodies ==
    { [text |-> b.text, json |-> b.json] : b \in ErrorBodies }
    \cup { [text |-> <<"{", "\"error\"", ":", "{", "\"code\"", ":", "\"X\"", "}", "}">>,
            json |-> JError(<<"X">>, <<>>)],
           [text |-> <<"{", "\"error\"", ":", "{", "}", "}">>,
            json |-> JError(<<>>, <<>>)],
           [text |-> <<"{", "\"error\"", ":", "\"bad\"", "}">>,
            json |-> JObj({"error"}, <<>>, NoErr, NoList)],
           [text |-> <<"{", "}">>, json |-> JEmpty],
           [text |-> <<>>, json |-> NoJson],
           [text |-> LongBody(<<>>, BodyLimit, <<>>), json |-> NoJson],
           [text |-> LongBody(<<" ">>, BodyLimit, <<"\n">>), json |-> NoJson],
           [text |-> LongBody(<<" ">>, BodyLimit + 1, <<" ">>), json |-> NoJson] }

ExtractContentTypes ==
    { None, JsonType, Some(<<"application/json", ";", " ", "charset=utf-8">>),
      Some(<<"text/html">>) }

ExtractResponses ==
    { Response(400,
               [NoHeaders EXCEPT !.content_type = ct, !.request_id = r,
                                 !.x_ms_request_id = x, !.client_request_id = cr],
               b.text, b.json) :
        ct \in ExtractContentTypes, b \in ExtractBodies,
        r \in {None, Some(<<>>), Some(<<"abc">>)},
        x \in {None, Some(<<"xyz">>)},
        cr \in {None, Some(<<"cli">>)} }

ExtractStart(resp) ==
    [op |-> "_extract_graph_error_message", pc |-> "idle", resp |-> resp, ret |-> None]

\* _extract_graph_error_message(resp) returns its text
ExtractCall(c) ==
    /\ top[c].op = "_extract_graph_error_message"
    /\ top[c].pc = "idle"
    /\ top' = [top EXCEPT ![c].pc = "returned",
                          ![c].ret = Some(ExtractGraphErrorMessage(top[c].resp))]
    /\ UNCHANGED <<config, client, rj, res, net, remote>>

InitExtract ==
    /\ config = [c \in {1} |-> SharePointConfig]
    /\ client = [c \in {1} |-> ClientInit(config[c])]
    /\ top \in [{1} -> { ExtractStart(resp) : resp \in ExtractResponses }]
    /\ rj = [c \in {1} |-> RjIdle]
    /\ res = [c \in {1} |-> ResIdle]
    /\ net = [c \in {1} |-> NetStart]
    /\ remote = AnyRemote

NextExtract == \E c \in Callers : ExtractCall(c)

SpecExtract == InitExtract /\ [][NextExtract]_vars

----------------------------------------------------------------------------
(* Properties of _extract_graph_error_message, checked under SpecExtract *)

C25_Returned(c) == top[c].op = "_extract_graph_error_message" /\ top[c].pc = "returned"

\* the content type is JSON, the body parses to an object and its `error`
\* object has a non-empty code or message
C25_Structured(resp) ==
    /\ IsSome(resp.headers.content_type)
    /\ \E i \in 1..Len(resp.headers.content_type[1]) :
           resp.headers.content_type[1][i] = "application/json"
    /\ resp.json.valid
    /\ "error" \in resp.json.keys
    /\ resp.json.error.isdict
    /\ (resp.json.error.code # <<>> \/ resp.json.error.message # <<>>)

\* the non-empty ones of code and message joined by " - "
C25_Main(resp) ==
    LET e == resp.json.error
    IN  IF e.code # <<>> /\ e.message # <<>> THEN e.code \o <<" - ">> \o e.message
        ELSE IF e.code # <<>> THEN e.code
        ELSE e.message

\* the suffixes: request_id= from request-id, else x-ms-request-id, and
\* client_request_id=
C25_Suffixes(resp) ==
    LET h == resp.headers
        rid == IF Truthy(h.request_id) THEN h.request_id[1]
               ELSE IF Truthy(h.x_ms_request_id) THEN h.x_ms_request_id[1]
               ELSE <<>>
    IN  (IF rid # <<>> THEN << <<"request_id=">> \o rid >> ELSE <<>>)
        \o (IF Truthy(h.client_request_id)
            THEN << <<"client_request_id=">> \o h.client_request_id[1] >> ELSE <<>>)

\* a text cut to 2000 characters plus the ellipsis marker when it is longer
C25_Cut(text) == IF Len(text) > 2000 THEN SubSeq(text, 1, 2000) \o <<"...">> ELSE text

\* the structured result: the main text, then each suffix after " | "
C25_StructuredResult(c) ==
    LET resp == top[c].resp
        sfx == C25_Suffixes(resp)
    IN  top[c].ret[1] =
            C25_Main(resp)
            \o (IF Len(sfx) >= 1 THEN <<" | ">> \o sfx[1] ELSE <<>>)
            \o (IF Len(sfx) = 2 THEN <<" | ">> \o sfx[2] ELSE <<>>)

\* the fallback result for a body text: the cut body, then " | " and the
\* suffixes with a blank between them
C25_FallbackResult(c, body) ==
    LET sfx == C25_Suffixes(top[c].resp)
    IN  top[c].ret[1] =
            C25_Cut(body)
            \o (IF Len(sfx) >= 1 THEN <<" | ">> \o sfx[1] ELSE <<>>)
            \o (IF Len(sfx) = 2 THEN <<" ">> \o sfx[2] ELSE <<>>)

----------------------------------------------------------------------------
(* Two callers resolving the same SharePoint workbook at the same time, as two
   read_records calls do *)

TwoCallers == {1, 2}

\* what the site's drives listing can be on a remote
ConcurrentListings ==
    << JDrives(<< JDrive(<<"Other">>, <<"d1">>), JDrive(<<"Shared Documents">>, <<"d2">>),
                  JDrive(<<"Documents">>, <<"d3">>) >>),
       JDrives(<< JDrive(<<"Other">>, <<"d1">>) >>),
       JDrives(<<>>) >>

\* a remote whose answers do not change: every endpoint has one payload; a
\* request can still meet a 503 or a dropped connection on its way
ConcurrentRemote(listing) ==
    [ transport |-> TRUE,
      payloads |-> [k \in {"site", "drives", "drive", "item", "values", "other"} |->
                      CASE k = "site" -> {JId(<<"site-id">>)}
                        [] k = "drives" -> {listing}
                        [] k = "drive" -> {JId(<<"default-drive">>)}
                        [] k = "item" -> {JId(<<"item-id">>)}
                        [] OTHER -> {JEmpty}],
      errors |-> {},
      retryable |-> {503},
      retry_after |-> {None},
      retry_bodies |-> {b \in ErrorBodies : b.ct = Some(<<"text/html">>)} ]

InitConcurrent ==
    /\ config \in { [c \in TwoCallers |-> cfg] :
                      cfg \in { [SharePointConfig EXCEPT !.range_address = r] :
                                  r \in {None, Some(<<"A1:B2">>)} } }
    /\ client = [c \in TwoCallers |-> ClientInit(config[c])]
    /\ top = [c \in TwoCallers |-> TopStart("resolve_excel_location")]
    /\ rj = [c \in TwoCallers |-> RjIdle]
    /\ res = [c \in TwoCallers |-> ResIdle]
    /\ net = [c \in TwoCallers |-> NetStart]
    /\ remote \in { ConcurrentRemote(ConcurrentListings[i]) : i \in DOMAIN ConcurrentListings }

NextConcurrent ==
    \/ \E c \in Callers : ResolveExcelLocation(c)
    \/ \E c \in Callers : SiteRequest(c)
    \/ \E c \in Callers : SiteResume(c)
    \/ \E c \in Callers : LocAfterSite(c)
    \/ \E c \in Callers : DriveResume(c)
    \/ \E c \in Callers : DefaultDriveResume(c)
    \/ \E c \in Callers : LocAfterDrive(c)
    \/ \E c \in Callers : ItemRequest(c)
    \/ \E c \in Callers : ItemResume(c)
    \/ \E c \in Callers : LocAfterItem(c)
    \/ \E c \in Callers : Headers(c)
    \/ \E c \in Callers : RequestRaises(c)
    \/ \E c \in Callers : RequestResponds(c)
    \/ \E c \in Callers : Sleep(c)

SpecConcurrent == InitConcurrent /\ [][NextConcurrent]_vars

----------------------------------------------------------------------------
(* Properties of concurrent resolution, checked under SpecConcurrent *)

\* the drive the listing of this remote leads to when a caller runs alone
C26_AloneDrive ==
    CASE remote.payloads.drives = {ConcurrentListings[1]} -> <<"d2">>
      [] remote.payloads.drives = {ConcurrentListings[2]} -> <<"d1">>
      [] OTHER -> <<"default-drive">>

\* the location a caller obtains from this remote when it runs alone
C26_AloneLocation(c) ==
    ExcelLocation(C26_AloneDrive, <<"item-id">>, config[c].worksheet_name,
                  IF Truthy(config[c].range_address) THEN config[c].range_address ELSE None)

\* a caller that has returned made its own site, drives, default-drive (when
\* the listing picks none) and item requests, and holds the location of a
\* run alone
C26_OwnSequence ==
    \A c \in Callers :
        top[c].pc = "returned"
        => /\ top[c].location = Some(C26_AloneLocation(c))
           /\ C16_Count(c, "site") = 1
           /\ C16_Count(c, "drives") = 1
           /\ C16_Count(c, "drive") = (IF C26_AloneDrive = <<"default-drive">> THEN 1 ELSE 0)
           /\ C16_Count(c, "item") \in {1, 2}
           /\ Len(net[c].requests)
                = 2 + C16_Count(c, "drive") + C16_Count(c, "item")
           /\ UrlKind(net[c].requests[1]) = "site"
           /\ UrlKind(net[c].requests[2]) = "drives"
           /\ UrlKind(net[c].requests[Len(net[c].requests)]) = "item"

\* every attempt a caller sent carried a token that caller acquired for it
C26_OwnTokens ==
    \A c \in Callers :
        LET call == net[c].call
        IN  /\ Len(call.sent) <= Len(call.tokens)
            /\ \A i \in 1..Len(call.sent) : call.sent[i] = call.tokens[i]
            /\ rj[c].pc = "request"
               => call.tokens # <<>> /\ rj[c].token = Some(call.tokens[Len(call.tokens)])
            /\ rj[c].pc = "returned" => Len(call.sent) >= 1

\* a step of one caller leaves the frames and counts of the other as they were
C26_NoInterference ==
    \A c \in Callers :
        (<<top[c], rj[c], res[c], net[c]>> # <<top'[c], rj'[c], res'[c], net'[c]>>)
        => \A d \in Callers \ {c} :
               <<top[d], rj[d], res[d], net[d]>> = <<top'[d], rj'[d], res'[d], net'[d]>>

\* C26: two callers resolving the same SharePoint configuration against a
\* remote whose answers do not change: under every interleaving each caller
\* makes its own site, drive and item requests with tokens it acquired
\* itself, no step of one changes anything of the other, and each that
\* returns holds the location it would hold when run alone.
C26_IndependentResolution ==
    /\ [](C26_OwnSequence /\ C26_OwnTokens)
    /\ [][C26_NoInterference]_vars

\* both callers have returned the same location, each after three requests
\* of its own
C26_Witness ==
    /\ Cardinality(Callers) = 2
    /\ \A c \in Callers :
           /\ top[c].pc = "returned"
           /\ top[c].location[1].drive_id = <<"d2">>
           /\ Len(net[c].requests) = 3

====
